---- MODULE Spec2Model ----
(***************************************************************************)
(* Glasgow FX2 firmware: the control-request dispatcher of main.c, the     *)
(* FPGA configuration channel of fpga.c, the status latch, the I/O voltage *)
(* driver of dac_ldo.c and the ADC081C alert monitor, as one state machine.*)
(* The main loop is one process (pc), the SETUP and ALERT interrupt        *)
(* handlers are actions that can run between any two main-loop steps.      *)
(***************************************************************************)
EXTENDS Integers, Sequences, FiniteSets, TLC

\* ------------------------------------------------------------------ bounds
MaxIdx == 2          \* largest chunk index (wIndex) the host sends
MaxChunks == 2       \* longest host payload, in 64-byte chunks

\* ------------------------------------------------------- program constants
USB_REQ_API_LEVEL == 15
USB_REQ_EEPROM == 16
USB_REQ_FPGA_CFG == 17
USB_REQ_STATUS == 18
USB_REQ_REGISTER == 19
USB_REQ_IO_VOLT == 20
USB_REQ_ALERT_VOLT == 22
USB_REQ_POLL_ALERT == 23
USB_REQ_BITSTREAM_ID == 24
USB_REQ_IOBUF_ENABLE == 25
USB_REQ_LIMIT_VOLT == 26
USB_REQ_PULL == 27
USB_REQ_CYPRESS_EEPROM_DB == 169
USB_REQ_LIBFX2_PAGE_SIZE == 176

ST_ERROR == 1
ST_FPGA_RDY == 2
ST_ALERT == 4

GLASGOW_REV_A == 16
GLASGOW_REV_B == 32
GLASGOW_REV_C0 == 48
GLASGOW_REV_C1 == 49
GLASGOW_REV_C2 == 50
GLASGOW_REV_C3 == 51
GLASGOW_REV_NA == 249
\* the legacy one-character revision tags 'A', 'B', 'C'
CHAR_A == 65
CHAR_B == 66
CHAR_C == 67
\* first byte of the FX2 boot EEPROM: C2 load, C0 load, erased
LOAD_CMD_C2 == 194
LOAD_CMD_C0 == 192
LOAD_CMD_BLANK == 255
I2C_400KHZ == 1

CUR_API_LEVEL == 4
I2C_ADDR_FX2_MEM == 81
I2C_ADDR_ICE_MEM == 82
IO_BUF_A == 1
IO_BUF_B == 2
IO_BUF_ALL == 3
MIN_VOLTAGE == 1650
MAX_VOLTAGE == 5500
BITSTREAM_ID_SIZE == 16
EP0_CHUNK == 64
BOOT_CHUNK == 128

\* INA233 limit registers: the codes that stand for "no limit"
INA233_UV_OFF == 0
INA233_OV_OFF == 32760

ADC081_BIT_ALERT_PIN_EN == 4
ADC081_BIT_ALERT_HOLD == 16
ADC081_RATE_1KSPS == {64, 128}

\* bmRequestType of a vendor request to the device, by direction
VENDOR_IN == "USB_RECIP_DEVICE|USB_TYPE_VENDOR|USB_DIR_IN"
VENDOR_OUT == "USB_RECIP_DEVICE|USB_TYPE_VENDOR|USB_DIR_OUT"

Ports == {IO_BUF_A, IO_BUF_B}
\* buffers[] of dac_ldo.c: selector -> index into voltage_limit
BufIndex(sel) == IF sel = IO_BUF_A THEN 0 ELSE 1
\* a uint8_t mask has the bit of port p set
HasBit(mask, p) == (mask \div p) % 2 = 1

\* --------------------------------------------------------- input domains
ZeroId == [i \in 1..BITSTREAM_ID_SIZE |-> 0]
IdA == [i \in 1..BITSTREAM_ID_SIZE |-> i]
IdB == [i \in 1..BITSTREAM_ID_SIZE |-> IF i = BITSTREAM_ID_SIZE THEN 255 ELSE 0]
HostIds == {IdA, IdB}
HostMillivolts == {0, 1800, 3300}
BootImageSize == 200

Req(t, b, i, v, l) ==
  [bmRequestType |-> t, bRequest |-> b, wIndex |-> i, wValue |-> v, wLength |-> l]

\* requests of the dispatcher core: status, bitstream download and identifier,
\* EEPROM, API level, and requests that match no handler
Requests ==
     {Req(VENDOR_IN, USB_REQ_STATUS, 0, 0, l) : l \in {1, 2}}
  \cup {Req(VENDOR_OUT, USB_REQ_STATUS, 0, 0, 1)}
  \cup {Req(VENDOR_OUT, USB_REQ_FPGA_CFG, i, 0, EP0_CHUNK * MaxChunks - 24) : i \in 0..MaxIdx}
  \cup {Req(d, USB_REQ_BITSTREAM_ID, 0, 0, BITSTREAM_ID_SIZE) : d \in {VENDOR_IN, VENDOR_OUT}}
  \cup {Req(VENDOR_OUT, USB_REQ_EEPROM, c, 0, EP0_CHUNK * MaxChunks - 24) : c \in {1, 4}}
  \cup {Req(VENDOR_OUT, USB_REQ_IO_VOLT, IO_BUF_A, 0, 2)}
  \cup {Req(VENDOR_IN, USB_REQ_API_LEVEL, 0, 0, 1)}
  \cup {Req(VENDOR_IN, USB_REQ_PULL + 1, 0, 0, 0)}

\* requests of the status latch, the voltage driver and the alert supervisor
LatchRequests ==
     {Req(VENDOR_IN, USB_REQ_STATUS, 0, 0, 1)}
  \cup {Req(VENDOR_OUT, USB_REQ_IO_VOLT, IO_BUF_A, 0, 2)}
  \cup {Req(VENDOR_OUT, USB_REQ_ALERT_VOLT, IO_BUF_A, 0, 4)}
  \cup {Req(VENDOR_IN, USB_REQ_POLL_ALERT, 0, 0, 1)}

NoArg == [read |-> FALSE, chip |-> 0, addr |-> 0, idx |-> 0, len |-> 0]

VARIABLES
  pc,               \* position of the main loop
  arg,              \* arg_* locals of the handler that is in its chunk loop
  pending_setup,    \* main.c: static volatile bool pending_setup
  SETUPDAT,         \* the 8-byte SETUP buffer, rewritten by every SETUP packet
  setup_rejected,   \* history: the packet in SETUPDAT was stalled by the ISR
  ep0cs,            \* last handshake armed on EP0
  EP0BUF,           \* data stage of the current control transfer
  status,           \* main.c: static uint8_t status, as the set of its bits
  bitstream_idx,    \* main.c: uint16_t bitstream_idx
  glasgow_config,   \* the in-memory configuration record
  armed_alert,      \* EX0
  alert_trip,       \* history: ports pulling ~ALERT when isr_IE0 last ran, not handled yet
  io,               \* LDO enable pins, DAC code words, and (history) the millivolts
                    \* of the last code word written
  adc,              \* ADC081C alert status and configuration, per port
  cdone,            \* CDONE pin of the FPGA
  fpga_chan,        \* history: Idle / Loading / Ready / Faulted
  fpga_bytes,       \* history: bytes shifted in since the last fpga_reset
  start_unreported, \* history: reset then start done, no status query served since
  id_cleared,       \* history: index-0 download accepted, no identifier stored since
  eeprom,           \* the FX2 boot EEPROM: load command, device id revision byte,
                    \* configuration byte and the stored configuration record
  fpga_reg,         \* the I2C register port of the FPGA: address selected, bytes written
  pull,             \* the TCA9534 expanders: output port and pull enables, per port
  ina233,           \* the INA233 monitors of revC2: warning limits, alerts masked, per port
  alert_window,     \* history: the window of the last alert set served for the port
                    \* (<<>>: none, or the set failed)
  err_led           \* the ERR LED: bit PIND_LED_ERR of IOD

vars == <<pc, arg, pending_setup, SETUPDAT, setup_rejected, ep0cs, EP0BUF, status,
          bitstream_idx, glasgow_config, armed_alert, alert_trip, io, adc, cdone,
          fpga_chan,
          fpga_bytes, start_unreported, id_cleared, eeprom, fpga_reg, pull,
          ina233, alert_window, err_led>>

usbv == <<pending_setup, SETUPDAT, setup_rejected, ep0cs, EP0BUF>>
fpgav == <<cdone, fpga_chan, fpga_bytes, start_unreported>>
idv == <<glasgow_config, id_cleared>>
monv == <<ina233, alert_window>>
devv == <<eeprom, fpga_reg, pull, monv>>
i2cv == <<devv, err_led>>

\* ---------------------------------------------------------- status latch
\* variant: the bit is assigned, not or-ed in
latch_status_bit_assign(st, bit) == {bit}

latch_status_bit(st, bit) == st \cup {bit}

\* variant: the whole register is cleared
reset_status_bit_all(st, bit) == {}

reset_status_bit(st, bit) == st \ {bit}

\* update_err_led: the level the LED bit is given
update_err_led(st) == ST_ERROR \in st \/ ST_ALERT \in st

\* the byte a set of status bits stands for
StatusByte(st) ==
  (IF ST_ERROR \in st THEN ST_ERROR ELSE 0) + (IF ST_FPGA_RDY \in st THEN ST_FPGA_RDY ELSE 0)
    + (IF ST_ALERT \in st THEN ST_ALERT ELSE 0)

\* ------------------------------------------------------------ dac_ldo.c
dac_start(mask, read, i2c_ok) ==
  /\ \/ mask = IO_BUF_A
     \/ mask = IO_BUF_B
     \/ mask = IO_BUF_ALL /\ ~read
  /\ i2c_ok

CodeWord(millivolts) ==
  ((254 * 16) - (((((millivolts - 1650) \div 16) * 269) % 65536) \div 16)) % 65536

\* variant: the ceiling is tested port by port, and the ports it allows are set
iobuf_set_voltage_each(s, limit, mask, millivolts, i2c_ok) ==
  LET sel == {p \in Ports : HasBit(mask, p)}
      allowed == {p \in sel : millivolts <= limit[BufIndex(p)]}
  IN IF millivolts = 0 THEN [ok |-> TRUE, io |-> [s EXCEPT !.en = s.en \ sel]]
     ELSE IF millivolts < MIN_VOLTAGE \/ millivolts > MAX_VOLTAGE THEN [ok |-> FALSE, io |-> s]
     ELSE IF ~dac_start(mask, FALSE, i2c_ok) THEN [ok |-> FALSE, io |-> s]
     ELSE [ok |-> allowed = sel,
           io |-> [en |-> s.en \cup allowed,
                   dac |-> [p \in Ports |-> IF p \in allowed THEN CodeWord(millivolts)
                                                             ELSE s.dac[p]],
                   cmd |-> [p \in Ports |-> IF p \in allowed THEN millivolts ELSE s.cmd[p]]]]

\* variant: a value that reaches the ceiling is refused
iobuf_set_voltage_reach(s, limit, mask, millivolts, i2c_ok) ==
  LET sel == {p \in Ports : HasBit(mask, p)} IN
  IF HasBit(mask, IO_BUF_A) /\ millivolts >= limit[0] THEN [ok |-> FALSE, io |-> s]
  ELSE IF HasBit(mask, IO_BUF_B) /\ millivolts >= limit[1] THEN [ok |-> FALSE, io |-> s]
  ELSE IF millivolts = 0 THEN [ok |-> TRUE, io |-> [s EXCEPT !.en = s.en \ sel]]
  ELSE IF millivolts < MIN_VOLTAGE \/ millivolts > MAX_VOLTAGE THEN [ok |-> FALSE, io |-> s]
  ELSE IF ~dac_start(mask, FALSE, i2c_ok) THEN [ok |-> FALSE, io |-> s]
  ELSE [ok |-> TRUE,
        io |-> [en |-> s.en \cup sel,
                dac |-> [p \in Ports |-> IF p \in sel THEN CodeWord(millivolts) ELSE s.dac[p]],
                cmd |-> [p \in Ports |-> IF p \in sel THEN millivolts ELSE s.cmd[p]]]]

\* variant: a value outside MIN_VOLTAGE..MAX_VOLTAGE is moved to the nearest bound
iobuf_set_voltage_clamped(s, limit, mask, millivolts, i2c_ok) ==
  LET sel == {p \in Ports : HasBit(mask, p)}
      mv  == IF millivolts = 0 THEN 0
             ELSE IF millivolts < MIN_VOLTAGE THEN MIN_VOLTAGE
             ELSE IF millivolts > MAX_VOLTAGE THEN MAX_VOLTAGE ELSE millivolts
  IN
  IF HasBit(mask, IO_BUF_A) /\ mv > limit[0] THEN [ok |-> FALSE, io |-> s]
  ELSE IF HasBit(mask, IO_BUF_B) /\ mv > limit[1] THEN [ok |-> FALSE, io |-> s]
  ELSE IF mv = 0 THEN [ok |-> TRUE, io |-> [s EXCEPT !.en = s.en \ sel]]
  ELSE IF ~dac_start(mask, FALSE, i2c_ok) THEN [ok |-> FALSE, io |-> s]
  ELSE [ok |-> TRUE,
        io |-> [en |-> s.en \cup sel,
                dac |-> [p \in Ports |-> IF p \in sel THEN CodeWord(mv) ELSE s.dac[p]],
                cmd |-> [p \in Ports |-> IF p \in sel THEN mv ELSE s.cmd[p]]]]

\* result of iobuf_set_voltage on driver state s under ceilings limit
iobuf_set_voltage(s, limit, mask, millivolts, i2c_ok) ==
  LET sel == {p \in Ports : HasBit(mask, p)} IN
  IF HasBit(mask, IO_BUF_A) /\ millivolts > limit[0] THEN [ok |-> FALSE, io |-> s]
  ELSE IF HasBit(mask, IO_BUF_B) /\ millivolts > limit[1] THEN [ok |-> FALSE, io |-> s]
  ELSE IF millivolts = 0 THEN [ok |-> TRUE, io |-> [s EXCEPT !.en = s.en \ sel]]
  ELSE IF millivolts < MIN_VOLTAGE \/ millivolts > MAX_VOLTAGE THEN [ok |-> FALSE, io |-> s]
  ELSE IF ~dac_start(mask, FALSE, i2c_ok) THEN [ok |-> FALSE, io |-> s]
  ELSE [ok |-> TRUE,
        io |-> [en |-> s.en \cup sel,
                dac |-> [p \in Ports |-> IF p \in sel THEN CodeWord(millivolts) ELSE s.dac[p]],
                cmd |-> [p \in Ports |-> IF p \in sel THEN millivolts ELSE s.cmd[p]]]]

\* variant: decoded with the offset the encoding uses
iobuf_get_voltage_offset(s, selector, i2c_ok) ==
  IF selector \notin Ports THEN [ok |-> FALSE, mv |-> 0]
  ELSE IF selector \notin s.en THEN [ok |-> TRUE, mv |-> 0]
  ELSE IF ~dac_start(selector, TRUE, i2c_ok) THEN [ok |-> FALSE, mv |-> 0]
  ELSE [ok |-> TRUE, mv |-> (1650 + ((254 - (s.dac[selector] \div 16)) * 152) \div 10) % 65536]

iobuf_get_voltage(s, selector, i2c_ok) ==
  IF selector \notin Ports THEN [ok |-> FALSE, mv |-> 0]
  ELSE IF selector \notin s.en THEN [ok |-> TRUE, mv |-> 0]
  ELSE IF ~dac_start(selector, TRUE, i2c_ok) THEN [ok |-> FALSE, mv |-> 0]
  ELSE [ok |-> TRUE, mv |-> (1650 + ((255 - (s.dac[selector] \div 16)) * 152) \div 10) % 65536]

\* --------------------------------------------------------------- fpga.c
fpga_is_ready(cd) == cd

RevAB == {GLASGOW_REV_A, GLASGOW_REV_B}
RevC == {GLASGOW_REV_C0, GLASGOW_REV_C1, GLASGOW_REV_C2, GLASGOW_REV_C3}

\* variant: the reset line is pulsed first, the outputs are switched off after it
fpga_reset_steps_late(s, cd, cfg) ==
  IF cfg.revision \in RevC
    THEN <<[io |-> s, cdone |-> FALSE, creset |-> TRUE],
           [io |-> [s EXCEPT !.en = {}], cdone |-> FALSE, creset |-> FALSE]>>
    ELSE <<[io |-> s, cdone |-> FALSE, creset |-> TRUE]>>

\* fpga_reset in program order: driver state, CDONE, and whether CRESET_N is
\* being pulsed, after each of its statements that changes one of them
fpga_reset_steps(s, cd, cfg) ==
  IF cfg.revision \in RevC
    THEN LET off == iobuf_set_voltage(s, cfg.voltage_limit, IO_BUF_ALL, 0, TRUE).io
         IN <<[io |-> off, cdone |-> cd, creset |-> FALSE],
              [io |-> off, cdone |-> FALSE, creset |-> TRUE]>>
    ELSE IF cfg.revision \in RevAB
      THEN <<[io |-> s, cdone |-> FALSE, creset |-> TRUE]>>
      ELSE <<[io |-> s, cdone |-> cd, creset |-> FALSE]>>

\* fpga_reset: on revC the outputs are switched off first; the reset line is
\* pulsed only for the revisions the switch names.
fpga_reset_io(s, cfg) ==
  IF cfg.revision \in RevC
    THEN iobuf_set_voltage(s, cfg.voltage_limit, IO_BUF_ALL, 0, TRUE).io
    ELSE s

fpga_reset_cdone(cd, cfg) ==
  IF cfg.revision \in RevAB \cup RevC THEN FALSE ELSE cd

\* fpga_start: CDONE after the 49 extra clocks; a running FPGA stays running,
\* one in configuration comes up or not depending on the image it was given.
fpga_start_cdone(cd, image_good) == cd \/ image_good


iobuf_set_voltage_limit_port(r, p, mask, millivolts, i2c_ok) ==
  IF ~r.ok \/ ~HasBit(mask, p) THEN r
  ELSE LET cur == iobuf_get_voltage(r.io, p, i2c_ok) IN
    IF ~cur.ok THEN [r EXCEPT !.ok = FALSE]
    ELSE LET set == IF millivolts < cur.mv
                      THEN iobuf_set_voltage(r.io, r.limit, p, millivolts, i2c_ok)
                      ELSE [ok |-> TRUE, io |-> r.io] IN
      IF ~set.ok THEN [r EXCEPT !.ok = FALSE]
      ELSE [ok |-> TRUE, io |-> set.io,
            limit |-> [r.limit EXCEPT ![BufIndex(p)] = millivolts]]

iobuf_set_voltage_limit(s, limit, mask, millivolts, i2c_ok) ==
  IF millivolts # 0 /\ (millivolts < MIN_VOLTAGE \/ millivolts > MAX_VOLTAGE)
    THEN [ok |-> FALSE, io |-> s, limit |-> limit]
    ELSE iobuf_set_voltage_limit_port(
           iobuf_set_voltage_limit_port([ok |-> TRUE, io |-> s, limit |-> limit],
                                        IO_BUF_A, mask, millivolts, i2c_ok),
           IO_BUF_B, mask, millivolts, i2c_ok)

\* --------------------------------------------------------- adc_adc081c.c
millivolts_to_code_adc081c(millivolts) == ((((millivolts * 10) % 65536) \div 259) * 16) % 65536

\* ~ALERT is pulled low by every monitor with a held alert and its pin enabled
iobuf_is_alerted_adc081c(a) ==
  \E p \in Ports : p \in a.flag /\ ADC081_BIT_ALERT_PIN_EN \in a.ctl[p]

\* one port of iobuf_set_alert_adc081c: four register writes, the first
\* nok of which succeed
iobuf_set_alert_port(r, p, mask, lo, hi, ctl) ==
  IF ~r.ok \/ ~HasBit(mask, p) THEN r
  ELSE LET a == r.adc
           n == r.nok
           a1 == IF n >= 1 THEN [a EXCEPT !.lo[p] = lo] ELSE a
           a2 == IF n >= 2 THEN [a1 EXCEPT !.hi[p] = hi] ELSE a1
           a3 == IF n >= 3 THEN [a2 EXCEPT !.flag = a2.flag \ {p}] ELSE a2
           a4 == IF n >= 4 THEN [a3 EXCEPT !.ctl[p] = ctl] ELSE a3
       IN [ok |-> n >= 4, adc |-> a4, nok |-> IF n >= 4 THEN n - 4 ELSE 0]

iobuf_set_alert_adc081c(a, mask, low_millivolts, high_millivolts, nok) ==
  IF low_millivolts > MAX_VOLTAGE \/ high_millivolts > MAX_VOLTAGE
    THEN [ok |-> FALSE, adc |-> a, nok |-> nok]
    ELSE LET dis == low_millivolts = 0 /\ high_millivolts = MAX_VOLTAGE
             lo == IF dis THEN 0 ELSE millivolts_to_code_adc081c(low_millivolts)
             hi == IF dis THEN 4080 ELSE millivolts_to_code_adc081c(high_millivolts)
             ctl == IF dis THEN {}
                    ELSE {ADC081_BIT_ALERT_PIN_EN, ADC081_BIT_ALERT_HOLD} \cup ADC081_RATE_1KSPS
         IN iobuf_set_alert_port(
              iobuf_set_alert_port([ok |-> TRUE, adc |-> a, nok |-> nok],
                                   IO_BUF_A, mask, lo, hi, ctl),
              IO_BUF_B, mask, lo, hi, ctl)

\* one port of iobuf_poll_alert_adc081c; the first nok register accesses
\* succeed; rd_clears: whether reading ALERT_STATUS releases the held alert
iobuf_poll_alert_port(r, p, clear, rd_clears) ==
  IF ~r.ok THEN r
  ELSE IF r.nok < 1 THEN [r EXCEPT !.ok = FALSE]
  ELSE IF p \notin r.adc.flag THEN [r EXCEPT !.nok = r.nok - 1]
  ELSE LET need == IF clear THEN 4 ELSE 3
           m == r.mask \cup {p}
           a1 == IF clear /\ r.nok >= 3 /\ rd_clears
                   THEN [r.adc EXCEPT !.flag = r.adc.flag \ {p}] ELSE r.adc
           a2 == IF r.nok >= need
                   THEN [a1 EXCEPT !.ctl[p] =
                           IF clear THEN a1.ctl[p] \cup {ADC081_BIT_ALERT_PIN_EN}
                                    ELSE a1.ctl[p] \ {ADC081_BIT_ALERT_PIN_EN}]
                   ELSE a1
       IN [ok |-> r.nok >= need, adc |-> a2, mask |-> m,
           nok |-> IF r.nok >= need THEN r.nok - need ELSE 0]

iobuf_poll_alert_adc081c(a, clear, nok, rd_clears) ==
  iobuf_poll_alert_port(
    iobuf_poll_alert_port([ok |-> TRUE, adc |-> a, mask |-> {}, nok |-> nok],
                          IO_BUF_A, clear, rd_clears),
    IO_BUF_B, clear, rd_clears)

\* ---------------------------------------------------------- adc_ina233.c
\* an INA233 out of reset: no limits, alert mask at its default
Ina233PowerOn == [uv |-> INA233_UV_OFF, ov |-> INA233_OV_OFF, masked |-> FALSE]

code_bytes_to_millivolts_ina233(code_word) == ((code_word * 5) \div 4) % 65536

\* variant: the limit registers are decoded whatever they hold
iobuf_get_alert_ina233_decoded(m, selector, nok) ==
  IF selector \notin Ports \/ nok < 2 THEN [ok |-> FALSE, lo |-> 0, hi |-> 0]
  ELSE [ok |-> TRUE, lo |-> code_bytes_to_millivolts_ina233(m[selector].uv),
        hi |-> code_bytes_to_millivolts_ina233(m[selector].ov)]

\* two register reads, the first nok of which succeed
iobuf_get_alert_ina233(m, selector, nok) ==
  IF selector \notin Ports \/ nok < 2 THEN [ok |-> FALSE, lo |-> 0, hi |-> 0]
  ELSE [ok |-> TRUE,
        lo |-> IF m[selector].uv = INA233_UV_OFF THEN 0
               ELSE code_bytes_to_millivolts_ina233(m[selector].uv),
        hi |-> IF m[selector].ov = INA233_OV_OFF THEN MAX_VOLTAGE
               ELSE code_bytes_to_millivolts_ina233(m[selector].ov)]

\* iobuf_reset_ina233 for each monitor in turn: RESTORE_DEFAULT_ALL, then the
\* alert mask; the first nok of the four writes succeed
iobuf_init_adc_ina233(m, nok) ==
  [ok |-> nok >= 4,
   ina233 |-> [p \in Ports |->
                 LET first == IF p = IO_BUF_A THEN 1 ELSE 3 IN
                 IF nok >= first + 1 THEN [Ina233PowerOn EXCEPT !.masked = TRUE]
                 ELSE IF nok >= first THEN Ina233PowerOn
                 ELSE m[p]]]

\* the uint8_t mask a set of ports stands for
MaskOf(S) == (IF IO_BUF_A \in S THEN IO_BUF_A ELSE 0) + (IF IO_BUF_B \in S THEN IO_BUF_B ELSE 0)

\* every register access of one driver call succeeds
I2C_ALL == 2 * 4
\* points at which the bus can fail inside one driver call
I2cOutcomes == {0, 2, I2C_ALL}


\* ------------------------------------------------------------------ Init
DefaultSerial == "9999999999999999"
FactorySerial == "C1-20190101T0000"

ConfigRecord(rev, serial, size, id) ==
  [revision |-> rev, serial |-> serial, bitstream_size |-> size, bitstream_id |-> id,
   voltage_limit |-> [i \in 0..1 |-> MAX_VOLTAGE]]

\* the boot EEPROM: byte 0, byte 5, byte 7, and the record at offset 8 + 4
Storage(load_cmd, rec) ==
  [load_cmd |-> load_cmd, did_rev |-> rec.revision, i2c_cfg |-> 0, config |-> rec]

Booting == pc \in {"config", "fixup", "boot"}

\* Power-on: globals are zero, the LDO enables are low (iobuf_init_dac_ldo),
\* the EEPROM holds storage, and the RAM at &glasgow_config holds memory.
PowerOn(storage, memory) ==
  /\ pc = "config"
  /\ arg = NoArg
  /\ pending_setup = FALSE
  /\ SETUPDAT = Req(VENDOR_IN, USB_REQ_API_LEVEL, 0, 0, 1)
  /\ setup_rejected = FALSE
  /\ ep0cs = "idle"
  /\ EP0BUF = <<>>
  /\ status = {}
  /\ bitstream_idx = 0
  /\ glasgow_config = memory
  /\ eeprom = storage
  /\ armed_alert = FALSE
  /\ alert_trip = {}
  /\ io = [en |-> {}, dac |-> [p \in Ports |-> 0], cmd |-> [p \in Ports |-> 0]]
  /\ adc = [flag |-> {}, ctl |-> [p \in Ports |-> {}],
            lo |-> [p \in Ports |-> 0], hi |-> [p \in Ports |-> 4080]]
  /\ cdone = FALSE
  /\ fpga_chan = "Idle"
  /\ fpga_bytes = 0
  /\ start_unreported = FALSE
  /\ id_cleared = FALSE
  /\ fpga_reg = [addr |-> 0, data |-> <<>>]
  /\ pull = [p \in Ports |-> [level |-> 255, cfg |-> 255]]
  /\ ina233 = [p \in Ports |-> Ina233PowerOn]
  /\ alert_window = [p \in Ports |-> <<>>]
  /\ err_led = FALSE

\* a device with firmware in the EEPROM: the C2 load has put the stored
\* record into RAM before main() runs
Init ==
  \E size \in {0, BootImageSize} :
    LET rec == ConfigRecord(GLASGOW_REV_C1, FactorySerial, size, IdA)
    IN PowerOn(Storage(LOAD_CMD_C2, rec), rec)

\* ------------------------------------------------------- config_init()
\* variant: the image size of the record is kept
config_defaults_sized(cfg) ==
  [cfg EXCEPT !.revision = GLASGOW_REV_NA, !.serial = DefaultSerial]

config_defaults(cfg) ==
  [cfg EXCEPT !.revision = GLASGOW_REV_NA, !.serial = DefaultSerial, !.bitstream_size = 0]

\* variant: the defaults are substituted only when a read fails
config_init_record_lax(mem, st, marker_ok, record_ok, partial) ==
  IF ~marker_ok
    THEN config_defaults(mem)
    ELSE IF st.load_cmd = LOAD_CMD_C0
      THEN IF record_ok
             THEN st.config
             ELSE config_defaults(IF partial
                                    THEN [mem EXCEPT !.bitstream_id = st.config.bitstream_id]
                                    ELSE mem)
      ELSE mem

\* the record config_init leaves in RAM. marker_ok, record_ok: the two
\* eeprom_read calls succeed; partial: the failing record read had already
\* stored the fields in front of the ceiling
config_init_record(mem, st, marker_ok, record_ok, partial) ==
  IF ~marker_ok \/ st.load_cmd = LOAD_CMD_BLANK
    THEN config_defaults(mem)
    ELSE IF st.load_cmd = LOAD_CMD_C2
      THEN mem
      ELSE IF st.load_cmd = LOAD_CMD_C0
        THEN IF record_ok
               THEN st.config
               ELSE config_defaults(IF partial
                                      THEN [mem EXCEPT !.bitstream_id = st.config.bitstream_id]
                                      ELSE mem)
        ELSE config_defaults(mem)

config_init ==
  /\ pc = "config"
  /\ \E marker_ok \in BOOLEAN, record_ok \in BOOLEAN, partial \in BOOLEAN :
       glasgow_config' = config_init_record(glasgow_config, eeprom, marker_ok, record_ok, partial)
  /\ pc' = "fixup"
  /\ UNCHANGED <<arg, usbv, status, bitstream_idx, id_cleared, armed_alert, alert_trip,
                 io, adc, fpgav, i2cv>>

\* ------------------------------------------------------- config_fixup()
\* variant: every tag is upgraded to the code of the next revision
config_fixup_revision_next(rev) ==
  CASE rev = CHAR_A -> GLASGOW_REV_B
    [] rev = CHAR_B -> GLASGOW_REV_C0
    [] rev = CHAR_C -> GLASGOW_REV_C1
    [] OTHER -> rev + 1

config_fixup_revision(rev) ==
  CASE rev = CHAR_A -> GLASGOW_REV_A
    [] rev = CHAR_B -> GLASGOW_REV_B
    [] rev = CHAR_C -> GLASGOW_REV_C0
    [] OTHER -> rev

\* the four eeprom_write calls; written: the ones that succeed
config_fixup_storage(st, rev, written) ==
  [st EXCEPT !.i2c_cfg = IF 1 \in written THEN I2C_400KHZ ELSE @,
             !.load_cmd = IF 2 \in written THEN LOAD_CMD_C0 ELSE @,
             !.did_rev = IF 3 \in written THEN rev ELSE @,
             !.config = IF 4 \in written THEN [@ EXCEPT !.revision = rev] ELSE @]

config_fixup ==
  /\ pc = "fixup"
  /\ IF glasgow_config.revision \in {CHAR_A, CHAR_B, CHAR_C}
       THEN \E written \in SUBSET (1..4) :
              /\ glasgow_config' =
                   [glasgow_config EXCEPT !.revision = config_fixup_revision(@)]
              /\ eeprom' = config_fixup_storage(eeprom,
                             config_fixup_revision(glasgow_config.revision), written)
       ELSE UNCHANGED <<glasgow_config, eeprom>>
  /\ pc' = "boot"
  /\ UNCHANGED <<arg, usbv, status, bitstream_idx, id_cleared, armed_alert, alert_trip,
                 io, adc, fpgav, fpga_reg, pull, monv, err_led>>

\* ------------------------------------------------------------ main(): boot
\* bytes forwarded by the auto-load when the storage read of chunk number
\* fail_at fails (fail_at = number of chunks: no failure)
BootChunks(size) == (size + BOOT_CHUNK - 1) \div BOOT_CHUNK
\* variant: a failed storage read is not noticed
BootLoaded_all(size, fail_at) == size

BootLoaded(size, fail_at) ==
  IF fail_at >= BootChunks(size) THEN size ELSE fail_at * BOOT_CHUNK

\* the while(length > 0) loop of the auto-load, pass by pass: what is left to
\* load, the passes made, the longest chunk forwarded, and whether the loop
\* was left by the break; the storage read of pass number fail_at fails
RECURSIVE autoload_loop(_, _, _, _)
autoload_loop(length, pass, longest, fail_at) ==
  IF length = 0
    THEN [length |-> 0, passes |-> pass, longest |-> longest, broke |-> FALSE]
    ELSE LET chunk_len == IF length < BOOT_CHUNK THEN length ELSE BOOT_CHUNK IN
         IF pass = fail_at
           THEN [length |-> length, passes |-> pass, longest |-> longest, broke |-> TRUE]
           ELSE autoload_loop(length - chunk_len, pass + 1,
                              IF chunk_len > longest THEN chunk_len ELSE longest, fail_at)

main_init ==
  /\ pc = "boot"
  /\ armed_alert' = TRUE
  /\ \E nok \in 0..4 :
       LET c2  == glasgow_config.revision = GLASGOW_REV_C2
           mon == iobuf_init_adc_ina233(ina233, nok)
           st1 == IF c2 /\ ~mon.ok THEN latch_status_bit(status, ST_ERROR) ELSE status
       IN
       /\ c2 \/ nok = 4
       /\ ina233' = IF c2 THEN mon.ina233 ELSE ina233
       /\ IF glasgow_config.bitstream_size > 0
            THEN \E fail_at \in 0..BootChunks(glasgow_config.bitstream_size),
                    image_good \in BOOLEAN :
                   LET size == glasgow_config.bitstream_size
                       done == fail_at >= BootChunks(size)
                       cd0  == fpga_reset_cdone(cdone, glasgow_config)
                       cd1  == IF done THEN fpga_start_cdone(cd0, image_good) ELSE cd0
                   IN /\ io' = fpga_reset_io(io, glasgow_config)
                      /\ fpga_bytes' = BootLoaded(size, fail_at)
                      /\ cdone' = cd1
                      /\ fpga_chan' = IF ~done THEN "Loading"
                                      ELSE IF fpga_is_ready(cd1) THEN "Ready" ELSE "Faulted"
                      /\ start_unreported' = done
                      /\ status' = IF ~done \/ ~fpga_is_ready(cd1)
                                     THEN latch_status_bit(st1, ST_ERROR) ELSE st1
                      /\ err_led' = IF ~done \/ ~fpga_is_ready(cd1)
                                      THEN update_err_led(status') ELSE FALSE
            ELSE /\ status' = st1
                 /\ err_led' = FALSE
                 /\ UNCHANGED <<io, fpgav>>
  /\ pc' = "setup"
  /\ UNCHANGED <<arg, usbv, bitstream_idx, idv, adc, alert_trip>>
  /\ UNCHANGED <<eeprom, fpga_reg, pull, alert_window>>


\* ------------------------------------------------------ interrupt handlers
\* variant: a rejected packet drops the flag of the admitted one
handle_usb_setup_drop(req) ==
  /\ ~Booting
  /\ SETUPDAT' = req
  /\ IF pending_setup
       THEN /\ ep0cs' = "stall"
            /\ setup_rejected' = TRUE
            /\ pending_setup' = FALSE
       ELSE /\ pending_setup' = TRUE
            /\ setup_rejected' = FALSE
            /\ ep0cs' = "setup"
  /\ EP0BUF' = <<>>
  /\ UNCHANGED <<pc, arg, status, bitstream_idx, idv, armed_alert, alert_trip, io, adc, fpgav>>
  /\ UNCHANGED i2cv

\* SUDAV: the packet lands in SETUPDAT, then handle_usb_setup runs
handle_usb_setup(req) ==
  /\ ~Booting
  /\ SETUPDAT' = req
  /\ IF pending_setup
       THEN /\ ep0cs' = "stall"
            /\ setup_rejected' = TRUE
            /\ UNCHANGED pending_setup
       ELSE /\ pending_setup' = TRUE
            /\ setup_rejected' = FALSE
            /\ ep0cs' = "setup"
  /\ EP0BUF' = <<>>
  /\ UNCHANGED <<pc, arg, status, bitstream_idx, idv, armed_alert, alert_trip, io, adc, fpgav>>
  /\ UNCHANGED i2cv

\* variant: the interrupt handler latches ALERT itself
isr_IE0_latch ==
  /\ ~Booting
  /\ armed_alert
  /\ iobuf_is_alerted_adc081c(adc)
  /\ armed_alert' = FALSE
  /\ alert_trip' = {p \in Ports : p \in adc.flag /\ ADC081_BIT_ALERT_PIN_EN \in adc.ctl[p]}
  /\ status' = latch_status_bit(status, ST_ALERT)
  /\ UNCHANGED <<pc, arg, usbv, bitstream_idx, idv, io, adc, fpgav>>
  /\ err_led' = update_err_led(status')
  /\ UNCHANGED devv

isr_IE0 ==
  /\ ~Booting
  /\ armed_alert
  /\ iobuf_is_alerted_adc081c(adc)
  /\ armed_alert' = FALSE
  /\ alert_trip' = {p \in Ports : p \in adc.flag /\ ADC081_BIT_ALERT_PIN_EN \in adc.ctl[p]}
  /\ UNCHANGED <<pc, arg, usbv, status, bitstream_idx, idv, io, adc, fpgav>>
  /\ UNCHANGED i2cv

\* a monitor in automatic conversion mode sees its input leave the window
AlertRaised(p) ==
  /\ ~Booting
  /\ adc.ctl[p] # {}
  /\ p \notin adc.flag
  /\ adc' = [adc EXCEPT !.flag = adc.flag \cup {p}]
  /\ UNCHANGED <<pc, arg, usbv, status, bitstream_idx, idv, armed_alert, alert_trip, io, fpgav>>
  /\ UNCHANGED i2cv

\* --------------------------------------------------------------- main loop
\* if(pending_setup) ... not taken
main_no_setup ==
  /\ pc = "setup"
  /\ ~pending_setup
  /\ pc' = "alert"
  /\ UNCHANGED <<arg, usbv, status, bitstream_idx, idv, armed_alert, alert_trip, io, adc, fpgav>>
  /\ UNCHANGED i2cv

\* if(!armed_alert) ... not taken
main_no_alert ==
  /\ pc = "alert"
  /\ armed_alert
  /\ pc' = "setup"
  /\ UNCHANGED <<arg, usbv, status, bitstream_idx, idv, armed_alert, alert_trip, io, adc, fpgav>>
  /\ UNCHANGED i2cv

\* variant: called on every pass of the main loop
handle_pending_alert_always ==
  /\ pc = "alert"
  /\ \E nok \in I2cOutcomes, i2c_ok \in BOOLEAN :
       LET poll == iobuf_poll_alert_adc081c(adc, FALSE, nok, FALSE)
           set  == iobuf_set_voltage(io, glasgow_config.voltage_limit, MaskOf(poll.mask),
                                     0, i2c_ok)
       IN /\ adc' = poll.adc
          /\ io' = set.io
  /\ status' = latch_status_bit(status, ST_ALERT)
  /\ armed_alert' = TRUE
  /\ alert_trip' = {}
  /\ pc' = "setup"
  /\ UNCHANGED <<arg, usbv, bitstream_idx, idv, fpgav>>
  /\ err_led' = update_err_led(status')
  /\ UNCHANGED devv

\* variant: gives up when the query of the monitors fails
handle_pending_alert_giveup ==
  /\ pc = "alert"
  /\ ~armed_alert
  /\ \E nok \in I2cOutcomes, i2c_ok \in BOOLEAN :
       LET poll == iobuf_poll_alert_adc081c(adc, FALSE, nok, FALSE)
           set  == iobuf_set_voltage(io, glasgow_config.voltage_limit, MaskOf(poll.mask),
                                     0, i2c_ok)
       IN /\ adc' = poll.adc
          /\ io' = IF poll.ok THEN set.io ELSE io
          /\ armed_alert' = poll.ok
  /\ status' = latch_status_bit(status, ST_ALERT)
  /\ alert_trip' = {}
  /\ pc' = "setup"
  /\ UNCHANGED <<arg, usbv, bitstream_idx, idv, fpgav>>
  /\ err_led' = update_err_led(status')
  /\ UNCHANGED devv

\* variant: the alert is handled as soon as it is pending, inside a chunk loop too
handle_pending_alert_preempt ==
  /\ pc \in {"alert", "eeprom_io", "cfg_io"}
  /\ ~armed_alert
  /\ \E nok \in I2cOutcomes, i2c_ok \in BOOLEAN :
       LET poll == iobuf_poll_alert_adc081c(adc, FALSE, nok, FALSE)
           set  == iobuf_set_voltage(io, glasgow_config.voltage_limit, MaskOf(poll.mask),
                                     0, i2c_ok)
       IN /\ adc' = poll.adc
          /\ io' = set.io
  /\ status' = latch_status_bit(status, ST_ALERT)
  /\ armed_alert' = TRUE
  /\ alert_trip' = {}
  /\ pc' = IF pc = "alert" THEN "setup" ELSE pc
  /\ UNCHANGED <<arg, usbv, bitstream_idx, idv, fpgav>>
  /\ err_led' = update_err_led(status')
  /\ UNCHANGED devv

\* variant: after an alert the loop looks at the alert flag again before it
\* looks at the commands
handle_pending_alert_again ==
  /\ pc = "alert"
  /\ ~armed_alert
  /\ \E nok \in I2cOutcomes, i2c_ok \in BOOLEAN :
       LET poll == iobuf_poll_alert_adc081c(adc, FALSE, nok, FALSE)
           set  == iobuf_set_voltage(io, glasgow_config.voltage_limit, MaskOf(poll.mask),
                                     0, i2c_ok)
       IN /\ adc' = poll.adc
          /\ io' = set.io
  /\ status' = latch_status_bit(status, ST_ALERT)
  /\ armed_alert' = TRUE
  /\ alert_trip' = {}
  /\ pc' = "alert"
  /\ err_led' = update_err_led(status')
  /\ UNCHANGED <<arg, usbv, bitstream_idx, idv, fpgav>>
  /\ UNCHANGED devv

handle_pending_alert ==
  /\ pc = "alert"
  /\ ~armed_alert
  /\ \E nok \in I2cOutcomes, i2c_ok \in BOOLEAN :
       LET poll == iobuf_poll_alert_adc081c(adc, FALSE, nok, FALSE)
           set  == iobuf_set_voltage(io, glasgow_config.voltage_limit, MaskOf(poll.mask),
                                     0, i2c_ok)
       IN /\ adc' = poll.adc
          /\ io' = set.io
  /\ status' = latch_status_bit(status, ST_ALERT)
  /\ armed_alert' = TRUE
  /\ alert_trip' = {}
  /\ pc' = "setup"
  /\ UNCHANGED <<arg, usbv, bitstream_idx, idv, fpgav>>
  /\ err_led' = update_err_led(status')
  /\ UNCHANGED devv


\* ------------------------------------------- handle_pending_usb_setup
IsVendor(req) == req.bmRequestType \in {VENDOR_IN, VENDOR_OUT}

IsEeprom(req) ==
  IsVendor(req) /\ req.bRequest \in {USB_REQ_CYPRESS_EEPROM_DB, USB_REQ_EEPROM}

IsStatus(req) ==
  req.bmRequestType = VENDOR_IN /\ req.bRequest = USB_REQ_STATUS /\ req.wLength = 1

\* variant: any index past the last accepted one is taken
IsFpgaCfg_gap(req, idx) ==
  /\ req.bmRequestType = VENDOR_OUT
  /\ req.bRequest = USB_REQ_FPGA_CFG
  /\ (req.wIndex = 0 \/ req.wIndex >= (idx + 1) % 65536)

IsFpgaCfg(req, idx) ==
  /\ req.bmRequestType = VENDOR_OUT
  /\ req.bRequest = USB_REQ_FPGA_CFG
  /\ (req.wIndex = 0 \/ req.wIndex = (idx + 1) % 65536)

IsBitstreamId(req) ==
  IsVendor(req) /\ req.bRequest = USB_REQ_BITSTREAM_ID /\ req.wLength = BITSTREAM_ID_SIZE

IsIoVolt(req) == IsVendor(req) /\ req.bRequest = USB_REQ_IO_VOLT /\ req.wLength = 2

IsAlertVolt(req) == IsVendor(req) /\ req.bRequest = USB_REQ_ALERT_VOLT /\ req.wLength = 4

IsPollAlert(req) ==
  req.bmRequestType = VENDOR_IN /\ req.bRequest = USB_REQ_POLL_ALERT /\ req.wLength = 1

IsLimitVolt(req) == IsVendor(req) /\ req.bRequest = USB_REQ_LIMIT_VOLT /\ req.wLength = 2

IsApiLevel(req) ==
  req.bmRequestType = VENDOR_IN /\ req.bRequest = USB_REQ_API_LEVEL /\ req.wLength = 1

\* the request reaches the last line of the function
IsRegister(req) == IsVendor(req) /\ req.bRequest = USB_REQ_REGISTER

IsPull(req) == IsVendor(req) /\ req.bRequest = USB_REQ_PULL /\ req.wLength = 2

NoHandler(req, idx) ==
  ~(\/ IsEeprom(req) \/ IsStatus(req) \/ IsFpgaCfg(req, idx) \/ IsBitstreamId(req)
    \/ IsIoVolt(req) \/ IsAlertVolt(req) \/ IsPollAlert(req) \/ IsLimitVolt(req)
    \/ IsApiLevel(req) \/ IsRegister(req) \/ IsPull(req))

\* main(): if(pending_setup) handle_pending_usb_setup();
Serving == pc = "setup" /\ pending_setup

\* chip and page size an EEPROM request addresses; chip 0: none
\* variant: selector 3 tests the address and the length, not their sum
EepromChip_nosum(req) ==
  CASE req.bRequest = USB_REQ_CYPRESS_EEPROM_DB -> I2C_ADDR_FX2_MEM
    [] req.wIndex = 0 -> I2C_ADDR_FX2_MEM
    [] req.wIndex = 1 -> I2C_ADDR_ICE_MEM
    [] req.wIndex = 2 -> I2C_ADDR_ICE_MEM + 1
    [] req.wIndex = 3 /\ req.wValue <= 4096 /\ req.wLength <= 4096 -> I2C_ADDR_FX2_MEM
    [] OTHER -> 0

EepromChip(req) ==
  CASE req.bRequest = USB_REQ_CYPRESS_EEPROM_DB -> I2C_ADDR_FX2_MEM
    [] req.wIndex = 0 -> I2C_ADDR_FX2_MEM
    [] req.wIndex = 1 -> I2C_ADDR_ICE_MEM
    [] req.wIndex = 2 -> I2C_ADDR_ICE_MEM + 1
    [] req.wIndex = 3 /\ req.wValue <= 4096 /\ req.wLength <= 4096
         /\ (req.wValue + req.wLength) % 65536 <= 4096 -> I2C_ADDR_FX2_MEM
    [] OTHER -> 0

EepromAddr(req) ==
  IF req.bRequest = USB_REQ_EEPROM /\ req.wIndex = 3
    THEN (req.wValue + 28672) % 65536
    ELSE req.wValue

\* variant: the whole length in one transfer
ChunkLen_whole(len) == len

ChunkLen(len) == IF len < EP0_CHUNK THEN len ELSE EP0_CHUNK

\* variant: the flag is left set while the chunks are transferred
req_eeprom_hold ==
  /\ Serving
  /\ IsEeprom(SETUPDAT)
  /\ IF EepromChip(SETUPDAT) = 0
       THEN /\ ep0cs' = "stall"
            /\ pc' = "alert"
            /\ pending_setup' = FALSE
            /\ UNCHANGED arg
       ELSE /\ arg' = [NoArg EXCEPT !.read = SETUPDAT.bmRequestType = VENDOR_IN,
                                   !.chip = EepromChip(SETUPDAT),
                                   !.addr = EepromAddr(SETUPDAT),
                                   !.len = SETUPDAT.wLength]
            /\ pc' = IF SETUPDAT.wLength > 0 THEN "eeprom_io" ELSE "alert"
            /\ UNCHANGED <<ep0cs, pending_setup>>
  /\ UNCHANGED <<SETUPDAT, setup_rejected, EP0BUF, status, bitstream_idx, idv,
                 armed_alert, alert_trip, io, adc, fpgav>>
  /\ UNCHANGED i2cv

req_eeprom ==
  /\ Serving
  /\ IsEeprom(SETUPDAT)
  /\ pending_setup' = FALSE
  /\ IF EepromChip(SETUPDAT) = 0
       THEN /\ ep0cs' = "stall"
            /\ pc' = "alert"
            /\ UNCHANGED arg
       ELSE /\ arg' = [NoArg EXCEPT !.read = SETUPDAT.bmRequestType = VENDOR_IN,
                                   !.chip = EepromChip(SETUPDAT),
                                   !.addr = EepromAddr(SETUPDAT),
                                   !.len = SETUPDAT.wLength]
            /\ pc' = IF SETUPDAT.wLength > 0 THEN "eeprom_io" ELSE "alert"
            /\ UNCHANGED ep0cs
  /\ UNCHANGED <<SETUPDAT, setup_rejected, EP0BUF, status, bitstream_idx, idv,
                 armed_alert, alert_trip, io, adc, fpgav>>
  /\ UNCHANGED i2cv

\* what the host puts into the boot EEPROM: a factory image
HostImages == {Storage(LOAD_CMD_C0, ConfigRecord(GLASGOW_REV_C1, FactorySerial, 0, ZeroId))}

\* the modelled bytes of the boot EEPROM after a write of len bytes of image h
\* at addr: byte 0, byte 5, byte 7, and the record from 8 + 4 on
eeprom_written(st, h, addr, len) ==
  LET hit(first, size) == addr < first + size /\ first < addr + len
      rec == 8 + 4
  IN [load_cmd |-> IF hit(0, 1) THEN h.load_cmd ELSE st.load_cmd,
      did_rev  |-> IF hit(5, 1) THEN h.did_rev ELSE st.did_rev,
      i2c_cfg  |-> IF hit(7, 1) THEN h.i2c_cfg ELSE st.i2c_cfg,
      config   |->
        [revision       |-> IF hit(rec, 1) THEN h.config.revision ELSE st.config.revision,
         serial         |-> IF hit(rec + 1, 16) THEN h.config.serial ELSE st.config.serial,
         bitstream_size |-> IF hit(rec + 17, 4) THEN h.config.bitstream_size
                                               ELSE st.config.bitstream_size,
         bitstream_id   |-> IF hit(rec + 21, BITSTREAM_ID_SIZE) THEN h.config.bitstream_id
                                                                ELSE st.config.bitstream_id,
         voltage_limit  |-> IF hit(rec + 21 + BITSTREAM_ID_SIZE, 4)
                              THEN h.config.voltage_limit ELSE st.config.voltage_limit]]

\* one pass of the while(arg_len > 0) loop of the EEPROM request
eeprom_chunk ==
  /\ pc = "eeprom_io"
  /\ \E xfer_ok \in BOOLEAN, h \in HostImages :
       IF xfer_ok
         THEN /\ arg' = [arg EXCEPT !.len = arg.len - ChunkLen(arg.len),
                                    !.addr = (arg.addr + ChunkLen(arg.len)) % 65536]
              /\ ep0cs' = IF arg.read THEN "in" ELSE "out"
              /\ pc' = IF arg.len - ChunkLen(arg.len) > 0 THEN "eeprom_io" ELSE "alert"
              /\ eeprom' = IF ~arg.read /\ arg.chip = I2C_ADDR_FX2_MEM
                             THEN eeprom_written(eeprom, h, arg.addr, ChunkLen(arg.len))
                             ELSE eeprom
         ELSE /\ ep0cs' = "stall"
              /\ pc' = "alert"
              /\ UNCHANGED <<arg, eeprom>>
  /\ UNCHANGED <<pending_setup, SETUPDAT, setup_rejected, EP0BUF, status, bitstream_idx,
                 idv, armed_alert, alert_trip, io, adc, fpgav>>
  /\ UNCHANGED <<fpga_reg, pull, monv, err_led>>

req_status ==
  /\ Serving
  /\ IsStatus(SETUPDAT)
  /\ pending_setup' = FALSE
  /\ EP0BUF' = <<StatusByte(status \cup (IF fpga_is_ready(cdone) THEN {ST_FPGA_RDY} ELSE {}))>>
  /\ ep0cs' = "in"
  /\ status' = reset_status_bit(status, ST_ERROR)
  /\ start_unreported' = FALSE
  /\ pc' = "alert"
  /\ UNCHANGED <<arg, SETUPDAT, setup_rejected, bitstream_idx, idv, armed_alert, alert_trip,
                 io, adc, cdone, fpga_chan, fpga_bytes>>
  /\ err_led' = IF ST_ERROR \in status THEN update_err_led(status') ELSE err_led
  /\ UNCHANGED devv

\* variant: the last byte is left out
ClearBitstreamId_short(cfg) ==
  [cfg EXCEPT !.bitstream_id =
     [i \in 1..BITSTREAM_ID_SIZE |-> IF i < BITSTREAM_ID_SIZE THEN 0 ELSE cfg.bitstream_id[i]]]

\* memset(glasgow_config.bitstream_id, 0, BITSTREAM_ID_SIZE)
ClearBitstreamId(cfg) == [cfg EXCEPT !.bitstream_id = [i \in 1..BITSTREAM_ID_SIZE |-> 0]]

req_fpga_cfg ==
  /\ Serving
  /\ IsFpgaCfg(SETUPDAT, bitstream_idx)
  /\ pending_setup' = FALSE
  /\ arg' = [NoArg EXCEPT !.idx = SETUPDAT.wIndex, !.len = SETUPDAT.wLength]
  /\ IF SETUPDAT.wIndex = 0
       THEN /\ glasgow_config' = ClearBitstreamId(glasgow_config)
            /\ id_cleared' = TRUE
            /\ io' = fpga_reset_io(io, glasgow_config)
            /\ cdone' = fpga_reset_cdone(cdone, glasgow_config)
            /\ fpga_chan' = "Loading"
            /\ fpga_bytes' = 0
            /\ start_unreported' = FALSE
       ELSE UNCHANGED <<idv, io, fpgav>>
  /\ IF SETUPDAT.wLength > 0
       THEN pc' = "cfg_io" /\ UNCHANGED bitstream_idx
       ELSE pc' = "alert" /\ bitstream_idx' = SETUPDAT.wIndex
  /\ UNCHANGED <<SETUPDAT, setup_rejected, ep0cs, EP0BUF, status, armed_alert, alert_trip, adc>>
  /\ UNCHANGED i2cv

\* variant: after the last pass the index is read from the SETUP buffer again
fpga_cfg_chunk_reread ==
  /\ pc = "cfg_io"
  /\ fpga_bytes' = fpga_bytes + ChunkLen(arg.len)
  /\ arg' = [arg EXCEPT !.len = arg.len - ChunkLen(arg.len)]
  /\ ep0cs' = "out"
  /\ IF arg.len - ChunkLen(arg.len) > 0
       THEN pc' = "cfg_io" /\ UNCHANGED bitstream_idx
       ELSE pc' = "alert" /\ bitstream_idx' = SETUPDAT.wIndex
  /\ UNCHANGED <<pending_setup, SETUPDAT, setup_rejected, EP0BUF, status, idv,
                 armed_alert, alert_trip, io, adc, cdone, fpga_chan, start_unreported>>
  /\ UNCHANGED i2cv

\* one pass of the while(arg_len > 0) loop of the bitstream download, and
\* after the last one bitstream_idx = arg_idx
fpga_cfg_chunk ==
  /\ pc = "cfg_io"
  /\ fpga_bytes' = fpga_bytes + ChunkLen(arg.len)
  /\ arg' = [arg EXCEPT !.len = arg.len - ChunkLen(arg.len)]
  /\ ep0cs' = "out"
  /\ IF arg.len - ChunkLen(arg.len) > 0
       THEN pc' = "cfg_io" /\ UNCHANGED bitstream_idx
       ELSE pc' = "alert" /\ bitstream_idx' = arg.idx
  /\ UNCHANGED <<pending_setup, SETUPDAT, setup_rejected, EP0BUF, status, idv,
                 armed_alert, alert_trip, io, adc, cdone, fpga_chan, start_unreported>>
  /\ UNCHANGED i2cv

\* variant: the identifier is stored whatever fpga_start returned
StoreBitstreamId_always(cfg, started, id) == [cfg EXCEPT !.bitstream_id = id]

\* xmemcpy(glasgow_config.bitstream_id, EP0BUF, BITSTREAM_ID_SIZE) if started
StoreBitstreamId(cfg, started, id) ==
  IF started THEN [cfg EXCEPT !.bitstream_id = id] ELSE cfg

\* variant: the identifier in RAM is written to storage by the same request
req_bitstream_id_persist ==
  /\ Serving
  /\ IsBitstreamId(SETUPDAT)
  /\ pending_setup' = FALSE
  /\ IF SETUPDAT.bmRequestType = VENDOR_IN
       THEN /\ EP0BUF' = glasgow_config.bitstream_id
            /\ ep0cs' = "in"
            /\ UNCHANGED <<idv, fpgav>>
       ELSE \E image_good \in BOOLEAN, id \in HostIds :
              LET cd == fpga_start_cdone(cdone, image_good) IN
              /\ cdone' = cd
              /\ fpga_chan' = IF fpga_is_ready(cd) THEN "Ready" ELSE "Faulted"
              /\ start_unreported' = (start_unreported \/ fpga_chan = "Loading")
              /\ glasgow_config' = StoreBitstreamId(glasgow_config, fpga_is_ready(cd), id)
              /\ id_cleared' = (id_cleared /\ ~fpga_is_ready(cd))
              /\ ep0cs' = IF fpga_is_ready(cd) THEN "out" ELSE "stall"
              /\ EP0BUF' = IF fpga_is_ready(cd) THEN id ELSE EP0BUF
              /\ UNCHANGED fpga_bytes
  /\ pc' = "alert"
  /\ UNCHANGED <<arg, SETUPDAT, setup_rejected, status, bitstream_idx, armed_alert, alert_trip, io, adc>>
  /\ eeprom' = [eeprom EXCEPT !.config.bitstream_id = glasgow_config'.bitstream_id]
  /\ UNCHANGED <<fpga_reg, pull, monv, err_led>>

req_bitstream_id ==
  /\ Serving
  /\ IsBitstreamId(SETUPDAT)
  /\ pending_setup' = FALSE
  /\ IF SETUPDAT.bmRequestType = VENDOR_IN
       THEN /\ EP0BUF' = glasgow_config.bitstream_id
            /\ ep0cs' = "in"
            /\ UNCHANGED <<idv, fpgav>>
       ELSE \E image_good \in BOOLEAN, id \in HostIds :
              LET cd == fpga_start_cdone(cdone, image_good) IN
              /\ cdone' = cd
              /\ fpga_chan' = IF fpga_is_ready(cd) THEN "Ready" ELSE "Faulted"
              /\ start_unreported' = (start_unreported \/ fpga_chan = "Loading")
              /\ glasgow_config' = StoreBitstreamId(glasgow_config, fpga_is_ready(cd), id)
              /\ id_cleared' = (id_cleared /\ ~fpga_is_ready(cd))
              /\ ep0cs' = IF fpga_is_ready(cd) THEN "out" ELSE "stall"
              /\ EP0BUF' = IF fpga_is_ready(cd) THEN id ELSE EP0BUF
              /\ UNCHANGED fpga_bytes
  /\ pc' = "alert"
  /\ UNCHANGED <<arg, SETUPDAT, setup_rejected, status, bitstream_idx, armed_alert, alert_trip, io, adc>>
  /\ UNCHANGED i2cv


AlertWindows == {<<0, MAX_VOLTAGE>>, <<1000, 4000>>}

code_to_millivolts_adc081c(code_word) == (((code_word \div 16) * 259) % 65536) \div 10

iobuf_get_alert_adc081c(a, selector, nok) ==
  IF selector \notin Ports \/ nok < 1 THEN [ok |-> FALSE, lo |-> 0, hi |-> 0]
  ELSE IF a.ctl[selector] = {} THEN [ok |-> TRUE, lo |-> 0, hi |-> MAX_VOLTAGE]
  ELSE [ok |-> nok >= 3, lo |-> code_to_millivolts_adc081c(a.lo[selector]),
        hi |-> code_to_millivolts_adc081c(a.hi[selector])]

iobuf_get_voltage_limit(limit, selector) ==
  IF selector \in Ports THEN [ok |-> TRUE, mv |-> limit[BufIndex(selector)]]
  ELSE [ok |-> FALSE, mv |-> 0]

\* the I/O voltage request, the host's data stage drawn from data
io_volt_request(data) ==
  /\ Serving
  /\ IsIoVolt(SETUPDAT)
  /\ pending_setup' = FALSE
  /\ \E i2c_ok \in BOOLEAN :
       IF SETUPDAT.bmRequestType = VENDOR_IN
         THEN LET r == iobuf_get_voltage(io, SETUPDAT.wIndex % 256, i2c_ok) IN
              /\ ep0cs' = IF r.ok THEN "in" ELSE "stall"
              /\ EP0BUF' = IF r.ok THEN <<r.mv>> ELSE EP0BUF
              /\ UNCHANGED <<io, status, err_led>>
         ELSE \E millivolts \in data :
              LET r == iobuf_set_voltage(io, glasgow_config.voltage_limit,
                                         SETUPDAT.wIndex % 256, millivolts, i2c_ok) IN
              /\ ep0cs' = "out"
              /\ io' = r.io
              /\ status' = IF r.ok THEN status ELSE latch_status_bit(status, ST_ERROR)
              /\ err_led' = IF r.ok THEN err_led ELSE update_err_led(status')
              /\ EP0BUF' = <<millivolts>>
  /\ pc' = "alert"
  /\ UNCHANGED <<arg, SETUPDAT, setup_rejected, bitstream_idx, idv, armed_alert, alert_trip,
                 adc, fpgav>>
  /\ UNCHANGED devv

req_io_volt == io_volt_request(HostMillivolts)

req_alert_volt ==
  /\ Serving
  /\ IsAlertVolt(SETUPDAT)
  /\ pending_setup' = FALSE
  /\ \E nok \in I2cOutcomes :
       IF SETUPDAT.bmRequestType = VENDOR_IN
         THEN LET r == IF glasgow_config.revision = GLASGOW_REV_C2
                         THEN iobuf_get_alert_ina233(ina233, SETUPDAT.wIndex % 256, nok)
                         ELSE iobuf_get_alert_adc081c(adc, SETUPDAT.wIndex % 256, nok) IN
              /\ ep0cs' = IF r.ok THEN "in" ELSE "stall"
              /\ EP0BUF' = IF r.ok THEN <<r.lo, r.hi>> ELSE EP0BUF
              /\ UNCHANGED <<adc, status, err_led, alert_window>>
         ELSE \E w \in AlertWindows :
              LET mask == SETUPDAT.wIndex % 256
                  r == IF glasgow_config.revision = GLASGOW_REV_C2
                         THEN [ok |-> TRUE, adc |-> adc]
                         ELSE iobuf_set_alert_adc081c(adc, mask, w[1], w[2], nok) IN
              /\ ep0cs' = "out"
              /\ adc' = r.adc
              /\ status' = IF r.ok THEN status ELSE latch_status_bit(status, ST_ERROR)
              /\ err_led' = IF r.ok THEN err_led ELSE update_err_led(status')
              /\ alert_window' = [p \in Ports |->
                                    IF ~HasBit(mask, p) THEN alert_window[p]
                                    ELSE IF r.ok THEN w ELSE <<>>]
              /\ UNCHANGED EP0BUF
  /\ pc' = "alert"
  /\ UNCHANGED <<arg, SETUPDAT, setup_rejected, bitstream_idx, idv, armed_alert, alert_trip,
                 io, fpgav>>
  /\ UNCHANGED <<eeprom, fpga_reg, pull, ina233>>


\* variant: the acknowledge switches the alerted ports back on
req_poll_alert_restore ==
  /\ Serving
  /\ IsPollAlert(SETUPDAT)
  /\ pending_setup' = FALSE
  /\ \E nok \in I2cOutcomes, rd_clears \in BOOLEAN :
       LET r == iobuf_poll_alert_adc081c(adc, TRUE, nok, rd_clears) IN
       /\ adc' = r.adc
       /\ EP0BUF' = <<MaskOf(r.mask)>>
       /\ io' = [io EXCEPT !.en = io.en \cup r.mask]
  /\ ep0cs' = "in"
  /\ status' = reset_status_bit(status, ST_ALERT)
  /\ pc' = "alert"
  /\ UNCHANGED <<arg, SETUPDAT, setup_rejected, bitstream_idx, idv, armed_alert, alert_trip,
                 fpgav>>
  /\ err_led' = IF ST_ALERT \in status THEN update_err_led(status') ELSE err_led
  /\ UNCHANGED devv

req_poll_alert ==
  /\ Serving
  /\ IsPollAlert(SETUPDAT)
  /\ pending_setup' = FALSE
  /\ \E nok \in I2cOutcomes, rd_clears \in BOOLEAN :
       LET r == iobuf_poll_alert_adc081c(adc, TRUE, nok, rd_clears) IN
       /\ adc' = r.adc
       /\ EP0BUF' = <<MaskOf(r.mask)>>
  /\ ep0cs' = "in"
  /\ status' = reset_status_bit(status, ST_ALERT)
  /\ pc' = "alert"
  /\ UNCHANGED <<arg, SETUPDAT, setup_rejected, bitstream_idx, idv, armed_alert, alert_trip,
                 io, fpgav>>
  /\ err_led' = IF ST_ALERT \in status THEN update_err_led(status') ELSE err_led
  /\ UNCHANGED devv

\* the voltage limit request, the host's data stage drawn from data
\* variant: the ceilings stay in RAM
eeprom_write_voltage_limit_skip(st, limit, done) == st

\* eeprom_write of glasgow_config.voltage_limit at its offset in the stored
\* record; done: the driver accepted the ceiling and the write succeeded
eeprom_write_voltage_limit(st, limit, done) ==
  IF done THEN [st EXCEPT !.config.voltage_limit = limit] ELSE st

limit_volt_request(data) ==
  /\ Serving
  /\ IsLimitVolt(SETUPDAT)
  /\ pending_setup' = FALSE
  /\ IF SETUPDAT.bmRequestType = VENDOR_IN
       THEN LET r == iobuf_get_voltage_limit(glasgow_config.voltage_limit,
                                             SETUPDAT.wIndex % 256) IN
            /\ ep0cs' = IF r.ok THEN "in" ELSE "stall"
            /\ EP0BUF' = IF r.ok THEN <<r.mv>> ELSE EP0BUF
            /\ UNCHANGED <<io, idv, status, eeprom, err_led>>
       ELSE \E millivolts \in data, i2c_ok \in BOOLEAN, ee_ok \in BOOLEAN :
            LET r == iobuf_set_voltage_limit(io, glasgow_config.voltage_limit,
                                             SETUPDAT.wIndex % 256, millivolts, i2c_ok) IN
            /\ ep0cs' = "out"
            /\ io' = r.io
            /\ glasgow_config' = [glasgow_config EXCEPT !.voltage_limit = r.limit]
            /\ UNCHANGED id_cleared
            /\ eeprom' = eeprom_write_voltage_limit(eeprom, r.limit, r.ok /\ ee_ok)
            /\ status' = IF r.ok /\ ee_ok THEN status ELSE latch_status_bit(status, ST_ERROR)
            /\ err_led' = IF r.ok /\ ee_ok THEN err_led ELSE update_err_led(status')
            /\ EP0BUF' = <<millivolts>>
  /\ pc' = "alert"
  /\ UNCHANGED <<arg, SETUPDAT, setup_rejected, bitstream_idx, armed_alert, alert_trip, adc, fpgav>>
  /\ UNCHANGED <<fpga_reg, pull, monv>>

req_limit_volt == limit_volt_request(HostMillivolts)

\* ------------------------------------------------- FPGA register requests
\* bytes on the register bus: what the host sends, what the FPGA answers
RegData(len) == {[i \in 1..len |-> b] : b \in {1, 2}}

\* fpga_reg_select, then fpga_reg_read or fpga_reg_write; failed: the phase
\* whose I2C transaction is not acknowledged. The result of fpga_reg_write is
\* not looked at.
req_register ==
  /\ Serving
  /\ IsRegister(SETUPDAT)
  /\ pending_setup' = FALSE
  /\ \E failed \in {"none", "select", "data"}, bytes \in RegData(SETUPDAT.wLength) :
       LET arg_read == SETUPDAT.bmRequestType = VENDOR_IN
           arg_addr == SETUPDAT.wValue % 256
       IN IF failed = "select"
            THEN /\ ep0cs' = "stall"
                 /\ UNCHANGED <<EP0BUF, fpga_reg>>
            ELSE IF arg_read
              THEN /\ ep0cs' = IF failed = "none" THEN "in" ELSE "stall"
                   /\ EP0BUF' = IF failed = "none" THEN bytes ELSE EP0BUF
                   /\ fpga_reg' = [fpga_reg EXCEPT !.addr = arg_addr]
              ELSE /\ ep0cs' = "out"
                   /\ EP0BUF' = bytes
                   /\ fpga_reg' = [addr |-> arg_addr,
                                   data |-> IF failed = "none" THEN bytes ELSE fpga_reg.data]
  /\ pc' = "alert"
  /\ UNCHANGED <<arg, SETUPDAT, setup_rejected, status, bitstream_idx, idv,
                 armed_alert, alert_trip, io, adc, fpgav, eeprom, pull, monv, err_led>>

\* ------------------------------------------------------------- pull.c
\* the two pull_write calls; nok: how many of them are acknowledged
iobuf_set_pull(pl, selector, enable, level, nok) ==
  IF selector \notin Ports
    THEN [ok |-> FALSE, pull |-> pl]
    ELSE [ok   |-> nok >= 2,
          pull |-> [pl EXCEPT ![selector] =
                      [level |-> IF nok >= 1 THEN level ELSE @.level,
                       cfg   |-> IF nok >= 2 THEN 255 - enable ELSE @.cfg]]]

iobuf_get_pull(pl, selector, i2c_ok) ==
  IF selector \notin Ports \/ ~i2c_ok
    THEN [ok |-> FALSE, enable |-> 0, level |-> 0]
    ELSE [ok |-> TRUE, enable |-> 255 - pl[selector].cfg, level |-> pl[selector].level]

\* data stages of the pull set request: enable mask, level mask
HostPulls == {<<0, 0>>, <<3, 1>>}

req_pull ==
  /\ Serving
  /\ IsPull(SETUPDAT)
  /\ pending_setup' = FALSE
  /\ IF SETUPDAT.bmRequestType = VENDOR_IN
       THEN \E i2c_ok \in BOOLEAN :
            LET r == iobuf_get_pull(pull, SETUPDAT.wIndex % 256, i2c_ok)
                failed == glasgow_config.revision < GLASGOW_REV_C0 \/ ~r.ok
            IN /\ ep0cs' = IF failed THEN "stall" ELSE "in"
               /\ EP0BUF' = IF failed THEN EP0BUF ELSE <<r.enable, r.level>>
               /\ UNCHANGED <<pull, status, err_led>>
       ELSE \E data \in HostPulls, nok \in 0..2 :
            LET r == iobuf_set_pull(pull, SETUPDAT.wIndex % 256, data[1], data[2], nok)
                skipped == glasgow_config.revision < GLASGOW_REV_C0
            IN /\ ep0cs' = "out"
               /\ EP0BUF' = data
               /\ pull' = IF skipped THEN pull ELSE r.pull
               /\ status' = IF skipped \/ ~r.ok
                              THEN latch_status_bit(status, ST_ERROR) ELSE status
               /\ err_led' = IF skipped \/ ~r.ok THEN update_err_led(status') ELSE err_led
  /\ pc' = "alert"
  /\ UNCHANGED <<arg, SETUPDAT, setup_rejected, bitstream_idx, idv,
                 armed_alert, alert_trip, io, adc, fpgav, eeprom, fpga_reg, monv>>

\* variant: the query clears the error latch, as the status query does
req_api_level_clear ==
  /\ Serving
  /\ IsApiLevel(SETUPDAT)
  /\ pending_setup' = FALSE
  /\ EP0BUF' = <<CUR_API_LEVEL>>
  /\ ep0cs' = "in"
  /\ status' = reset_status_bit(status, ST_ERROR)
  /\ err_led' = update_err_led(status')
  /\ pc' = "alert"
  /\ UNCHANGED <<arg, SETUPDAT, setup_rejected, bitstream_idx, idv,
                 armed_alert, alert_trip, io, adc, fpgav>>
  /\ UNCHANGED devv

req_api_level ==
  /\ Serving
  /\ IsApiLevel(SETUPDAT)
  /\ pending_setup' = FALSE
  /\ EP0BUF' = <<CUR_API_LEVEL>>
  /\ ep0cs' = "in"
  /\ pc' = "alert"
  /\ UNCHANGED <<arg, SETUPDAT, setup_rejected, status, bitstream_idx, idv,
                 armed_alert, alert_trip, io, adc, fpgav>>
  /\ UNCHANGED i2cv

\* no handler matched: the final STALL_EP0() of the function
req_unhandled ==
  /\ Serving
  /\ NoHandler(SETUPDAT, bitstream_idx)
  /\ ep0cs' = "stall"
  /\ pc' = "alert"
  /\ UNCHANGED <<arg, pending_setup, SETUPDAT, setup_rejected, EP0BUF, status, bitstream_idx,
                 idv, armed_alert, alert_trip, io, adc, fpgav>>
  /\ UNCHANGED i2cv

handle_pending_usb_setup ==
  \/ req_eeprom \/ req_status \/ req_fpga_cfg \/ req_bitstream_id \/ req_io_volt
  \/ req_alert_volt \/ req_poll_alert \/ req_limit_volt \/ req_register \/ req_pull
  \/ req_api_level \/ req_unhandled

\* the main loop with nothing to do, and the handlers every family shares
Next ==
  \/ config_init
  \/ config_fixup
  \/ main_init
  \/ \E req \in Requests : handle_usb_setup(req)
  \/ main_no_setup
  \/ main_no_alert
  \/ req_eeprom
  \/ eeprom_chunk
  \/ req_status
  \/ req_fpga_cfg
  \/ fpga_cfg_chunk
  \/ req_bitstream_id
  \/ req_io_volt
  \/ req_api_level
  \/ req_unhandled

Spec == Init /\ [][Next]_vars

NextLatch ==
  \/ config_init
  \/ config_fixup
  \/ main_init
  \/ \E req \in LatchRequests : handle_usb_setup(req)
  \/ isr_IE0
  \/ \E p \in Ports : AlertRaised(p)
  \/ main_no_setup
  \/ main_no_alert
  \/ handle_pending_alert
  \/ req_status
  \/ req_io_volt
  \/ req_alert_volt
  \/ req_poll_alert

SpecLatch == Init /\ [][NextLatch]_vars

\* ------------------------------------------------ voltage and ceiling family
\* data stages of the voltage family: off, two rails, and two neighbouring
\* values that fall into the same step of the DAC
VoltMillivolts == {0, 1800, 2304, 2305, 3300}

VoltRequests ==
     {Req(VENDOR_OUT, USB_REQ_IO_VOLT, m, 0, 2) : m \in {IO_BUF_A, IO_BUF_ALL}}
  \cup {Req(VENDOR_IN, USB_REQ_IO_VOLT, IO_BUF_A, 0, 2)}
  \cup {Req(d, USB_REQ_LIMIT_VOLT, IO_BUF_A, 0, 2) : d \in {VENDOR_IN, VENDOR_OUT}}
  \cup {Req(VENDOR_OUT, USB_REQ_FPGA_CFG, 0, 0, 0)}

req_io_volt_fine == io_volt_request(VoltMillivolts)

req_limit_volt_fine == limit_volt_request(VoltMillivolts)

NextVolt ==
  \/ config_init
  \/ config_fixup
  \/ main_init
  \/ \E req \in VoltRequests : handle_usb_setup(req)
  \/ main_no_setup
  \/ main_no_alert
  \/ req_io_volt_fine
  \/ req_limit_volt_fine
  \/ req_fpga_cfg

SpecVolt == Init /\ [][NextVolt]_vars

\* the main loop never stops, an enabled interrupt is taken, and the bus
\* does not fail for ever
MainLoopLatch ==
  \/ config_init \/ config_fixup
  \/ main_init \/ main_no_setup \/ main_no_alert \/ handle_pending_alert
  \/ req_status \/ req_io_volt \/ req_alert_volt \/ req_poll_alert

\* handle_pending_alert with every register access acknowledged
handle_pending_alert_acked ==
  /\ handle_pending_alert
  /\ adc' = iobuf_poll_alert_adc081c(adc, FALSE, I2C_ALL, FALSE).adc
  /\ io' = [io EXCEPT !.en = io.en \ iobuf_poll_alert_adc081c(adc, FALSE, I2C_ALL, FALSE).mask]

SpecLatchFair ==
  /\ SpecLatch
  /\ WF_vars(MainLoopLatch)
  /\ WF_vars(isr_IE0)
  /\ SF_vars(handle_pending_alert_acked)


\* ---------------------------------------------------------------- claims
IoPcs == {"eeprom_io", "cfg_io"}
IsCfgRequest(req) == req.bmRequestType = VENDOR_OUT /\ req.bRequest = USB_REQ_FPGA_CFG
\* bit of a status byte
ByteHas(byte, bit) == (byte \div bit) % 2 = 1

\* C1: a SETUP packet that arrives while a command is admitted is stalled,
\* and neither the admitted flag nor any other firmware state changes.
C1_RejectedSetupNoSideEffect ==
  [][\A req \in Requests :
       (pending_setup /\ handle_usb_setup(req)) =>
         /\ ep0cs' = "stall"
         /\ pending_setup'
         /\ UNCHANGED <<pc, arg, status, bitstream_idx, glasgow_config, io, adc,
                        armed_alert, alert_trip, cdone, fpga_chan, fpga_bytes, i2cv>>]_vars

C1_Witness ==
  /\ pending_setup
  /\ setup_rejected
  /\ ep0cs = "stall"
  /\ io.en # {}
  /\ bitstream_idx > 0

\* C2: every call of handle_pending_usb_setup clears pending_setup, whatever
\* the request (the step that takes up the request leaves the flag false).
C2_EveryCallClearsPending == [][(Serving /\ pc' # pc) => ~pending_setup']_vars

\* C3 as stated: while the chunk loop of a command runs, the admitted flag
\* is still set, so no new command can be admitted.
C3_FlagHeldDuringIo == pc \in IoPcs => pending_setup

\* C3 amended: the flag is cleared by the step that enters the chunk loop;
\* while the loop runs the flag can only be set, by an admission that leaves
\* the loop position and the copied parameters of the running command alone,
\* and no other request is taken up until the loop has ended.
C3_FlagClearedBeforeIo ==
  [][/\ (pc = "setup" /\ pc' \in IoPcs) => (pending_setup /\ ~pending_setup')
     /\ (pc \in IoPcs /\ pending_setup' # pending_setup) =>
          (pending_setup' /\ ~setup_rejected' /\ pc' = pc /\ arg' = arg)
     /\ (pc \in IoPcs /\ pc' # pc) => (pc' = "alert" /\ pending_setup' = pending_setup)]_vars

C3_Witness ==
  /\ pc \in IoPcs
  /\ pending_setup
  /\ ~setup_rejected
  /\ arg.len > 0

\* C4: a request that handle_usb_setup stalled is never executed by the main
\* loop: a stalled packet that the main loop takes up matches no handler.
C4_RejectedNeverExecuted ==
  [][(Serving /\ setup_rejected /\ pc' # pc) => NoHandler(SETUPDAT, bitstream_idx)]_vars

\* C5: a download request whose index is neither 0 nor bitstream_idx + 1 is
\* stalled and changes nothing of the download (index, FPGA, bytes forwarded,
\* identifier); a download that completes sets bitstream_idx to its own
\* index, which is 0 or the successor of the previous value.
C5_OutOfOrderChunkRejected ==
  [][/\ (/\ Serving
         /\ IsCfgRequest(SETUPDAT)
         /\ SETUPDAT.wIndex # 0
         /\ SETUPDAT.wIndex # bitstream_idx + 1
         /\ pc' # pc) =>
          /\ ep0cs' = "stall"
          /\ pc' = "alert"
          /\ UNCHANGED <<bitstream_idx, cdone, fpga_chan, fpga_bytes, glasgow_config, arg>>
     /\ (pc = "cfg_io" /\ pc' # pc) =>
          /\ bitstream_idx' = arg.idx
          /\ bitstream_idx' \in {0, bitstream_idx + 1}
     /\ bitstream_idx' # bitstream_idx =>
          (bitstream_idx' = bitstream_idx + 1 \/ bitstream_idx' = 0)]_vars

C5_Witness ==
  /\ pc = "alert"
  /\ IsCfgRequest(SETUPDAT)
  /\ SETUPDAT.wIndex = 1
  /\ bitstream_idx = 1
  /\ ep0cs = "stall"
  /\ ~setup_rejected
  /\ pending_setup

\* C6: bytes are forwarded to the FPGA only while the channel is Loading
\* (an index-0 download was accepted and no start has happened since).
C6_LoadOnlyWhileLoading == pc = "cfg_io" => fpga_chan = "Loading"

C8_IdentifierSetOnlyWhenReady ==
  [][(Serving /\ IsVendor(SETUPDAT) /\ SETUPDAT.bRequest = USB_REQ_BITSTREAM_ID
        /\ SETUPDAT.wLength = 16 /\ pc' # pc) =>
       IF SETUPDAT.bmRequestType = VENDOR_IN
         THEN glasgow_config' = glasgow_config
         ELSE IF cdone'
           THEN /\ ep0cs' = "out"
                /\ glasgow_config'.bitstream_id = EP0BUF'
                /\ EP0BUF' \in HostIds
           ELSE /\ ep0cs' = "stall"
                /\ glasgow_config' = glasgow_config]_vars

C8_Witness ==
  /\ SETUPDAT = Req(VENDOR_OUT, USB_REQ_BITSTREAM_ID, 0, 0, 16)
  /\ ~setup_rejected
  /\ ep0cs = "stall"
  /\ fpga_chan = "Faulted"
  /\ ~cdone
  /\ glasgow_config.bitstream_id = IdA

\* C9: the first status query after a start reports FPGA_READY if the start
\* returned ready, and ERROR with FPGA_READY clear if it returned faulted,
\* whether the start ran at boot or in the identifier-set command.
C9_StartOutcomeReported ==
  [][(Serving /\ IsStatus(SETUPDAT) /\ start_unreported /\ pc' # pc) =>
       /\ fpga_chan = "Ready" => ByteHas(EP0BUF'[1], ST_FPGA_RDY)
       /\ fpga_chan = "Faulted" =>
            (ByteHas(EP0BUF'[1], ST_ERROR) /\ ~ByteHas(EP0BUF'[1], ST_FPGA_RDY))]_vars

\* C10: a status query returns the latch as it was (ERROR, ALERT) with
\* FPGA_READY taken from the ready signal, then clears ERROR and keeps
\* ALERT; FPGA_READY is never stored in the latch; ERROR is never set by a
\* status query, an interrupt handler or the alert supervisor.
C10_StatusQueryReadClear ==
  /\ [](ST_FPGA_RDY \notin status)
  /\ [][/\ (Serving /\ IsStatus(SETUPDAT) /\ pc' # pc) =>
             /\ EP0BUF' = <<(IF ST_ERROR \in status THEN 1 ELSE 0)
                             + (IF cdone THEN 2 ELSE 0)
                             + (IF ST_ALERT \in status THEN 4 ELSE 0)>>
             /\ ST_ERROR \notin status'
             /\ (ST_ALERT \in status' <=> ST_ALERT \in status)
             /\ UNCHANGED <<glasgow_config, io, adc, cdone, armed_alert, alert_trip, bitstream_idx>>
        /\ (ST_ERROR \in status' /\ ST_ERROR \notin status) =>
             \/ pc = "boot"
             \/ Serving /\ (IsIoVolt(SETUPDAT) \/ IsAlertVolt(SETUPDAT))]_vars

C10_Witness ==
  /\ SETUPDAT = Req(VENDOR_IN, USB_REQ_STATUS, 0, 0, 1)
  /\ ep0cs = "in"
  /\ EP0BUF = <<5>>
  /\ status = {ST_ALERT}
  /\ ~cdone

\* C11: the alert acknowledge clears ALERT and no other latch bit, and leaves
\* every port's output and ceiling alone; a port that is off is switched on
\* only by a voltage-set command.
C11_AcknowledgeClearsAlertOnly ==
  [][/\ (Serving /\ IsPollAlert(SETUPDAT) /\ pc' # pc) =>
          /\ status' = status \ {ST_ALERT}
          /\ UNCHANGED <<io, glasgow_config>>
     /\ \A p \in Ports : (p \notin io.en /\ p \in io'.en) =>
          (Serving /\ IsIoVolt(SETUPDAT) /\ SETUPDAT.bmRequestType = VENDOR_OUT)]_vars

C11_Witness ==
  /\ IsPollAlert(SETUPDAT)
  /\ pc = "alert"
  /\ ep0cs = "in"
  /\ EP0BUF = <<IO_BUF_A>>
  /\ status = {ST_ERROR}
  /\ io.en = {}
  /\ io.cmd[IO_BUF_A] = 3300

\* C12: ERROR goes from set to clear only in the step that serves a status
\* query, ALERT only in the step that serves the alert acknowledge.
C12_LatchClearedOnlyByOwner ==
  [][/\ (ST_ERROR \in status /\ ST_ERROR \notin status') =>
          (Serving /\ IsStatus(SETUPDAT) /\ pc' # pc)
     /\ (ST_ALERT \in status /\ ST_ALERT \notin status') =>
          (Serving /\ IsPollAlert(SETUPDAT) /\ pc' # pc)]_vars

C12_Witness ==
  /\ status = {ST_ERROR, ST_ALERT}
  /\ pc = "setup"
  /\ armed_alert
  /\ io.en = {}
  /\ io.cmd[IO_BUF_A] = 1800
  /\ IsIoVolt(SETUPDAT)

\* the millivolts port p was last commanded to, 0 while its LDO is off
Commanded(p) == IF p \in io.en THEN io.cmd[p] ELSE 0
Ceiling(p) == glasgow_config.voltage_limit[BufIndex(p)]
\* the main loop serves a voltage-set / ceiling-set in this step
VoltageSetStep ==
  Serving /\ IsIoVolt(SETUPDAT) /\ SETUPDAT.bmRequestType = VENDOR_OUT /\ pc' # pc
CeilingSetStep ==
  Serving /\ IsLimitVolt(SETUPDAT) /\ SETUPDAT.bmRequestType = VENDOR_OUT /\ pc' # pc
VoltageGetStep ==
  Serving /\ IsIoVolt(SETUPDAT) /\ SETUPDAT.bmRequestType = VENDOR_IN /\ pc' # pc

\* C13: in every reachable state each port's commanded output voltage is at
\* most that port's ceiling.
C13_VoltageWithinCeiling == \A p \in Ports : Commanded(p) <= Ceiling(p)

\* C14: a voltage-set whose value exceeds the ceiling of any selected port
\* changes no port's output and latches ERROR.
C14_OverCeilingSetRejected ==
  [][(/\ VoltageSetStep
      /\ \E p \in Ports : HasBit(SETUPDAT.wIndex, p) /\ EP0BUF'[1] > Ceiling(p)) =>
       /\ io' = io
       /\ ST_ERROR \in status'
       /\ UNCHANGED glasgow_config]_vars

C14_Witness ==
  /\ SETUPDAT = Req(VENDOR_OUT, USB_REQ_IO_VOLT, IO_BUF_ALL, 0, 2)
  /\ pc = "alert"
  /\ EP0BUF = <<3300>>
  /\ Ceiling(IO_BUF_A) = 1800
  /\ Ceiling(IO_BUF_B) = MAX_VOLTAGE
  /\ io.en = Ports
  /\ Commanded(IO_BUF_A) = 1800
  /\ Commanded(IO_BUF_B) = 1800
  /\ ST_ERROR \in status

\* C15: a ceiling-set below a selected port's voltage either lowers that
\* port to the new value and records the ceiling, or leaves the port's
\* ceiling unchanged; after the step no port's ceiling is below its voltage.
C15_CeilingLowersVoltageFirst ==
  [][CeilingSetStep =>
       /\ \A p \in Ports :
            (HasBit(SETUPDAT.wIndex, p) /\ EP0BUF'[1] < Commanded(p)) =>
               \/ Ceiling(p)' = EP0BUF'[1] /\ Commanded(p)' = EP0BUF'[1]
               \/ Ceiling(p)' = Ceiling(p)
       /\ \A p \in Ports :
            Commanded(p) <= Ceiling(p) => Commanded(p)' <= Ceiling(p)']_vars

\* C16 as stated: with port A's ceiling at 3300 a voltage-set of 3300 succeeds;
\* after a following ceiling-set of 1800 a voltage-get on port A returns 1800.
C16_GetAfterCeilingReturnsExact ==
  [][/\ (/\ VoltageSetStep
          /\ SETUPDAT.wIndex = IO_BUF_A
          /\ EP0BUF'[1] = 3300
          /\ Ceiling(IO_BUF_A) = 3300
          /\ ST_ERROR \notin status') =>
           (IO_BUF_A \in io'.en /\ io'.dac[IO_BUF_A] = CodeWord(3300))
     /\ (/\ CeilingSetStep
          /\ SETUPDAT.wIndex = IO_BUF_A
          /\ EP0BUF'[1] = 1800
          /\ Ceiling(IO_BUF_A) = 3300
          /\ Commanded(IO_BUF_A) = 3300
          /\ ST_ERROR \notin status') =>
           /\ Ceiling(IO_BUF_A)' = 1800
           /\ iobuf_get_voltage(io', IO_BUF_A, TRUE) = [ok |-> TRUE, mv |-> 1800]
     /\ (/\ VoltageGetStep
          /\ SETUPDAT.wIndex = IO_BUF_A
          /\ Ceiling(IO_BUF_A) = 1800
          /\ Commanded(IO_BUF_A) = 1800
          /\ ep0cs' = "in") =>
           EP0BUF' = <<1800>>]_vars

\* C16 amended: as above, and the voltage-get returns 1817, the value the
\* decoding of get gives for the code word that set writes for 1800.
C16_GetAfterCeilingReturnsDecoded ==
  [][/\ (/\ VoltageSetStep
          /\ SETUPDAT.wIndex = IO_BUF_A
          /\ EP0BUF'[1] = 3300
          /\ Ceiling(IO_BUF_A) = 3300
          /\ ST_ERROR \notin status') =>
           (IO_BUF_A \in io'.en /\ io'.dac[IO_BUF_A] = CodeWord(3300))
     /\ (/\ CeilingSetStep
          /\ SETUPDAT.wIndex = IO_BUF_A
          /\ EP0BUF'[1] = 1800
          /\ Ceiling(IO_BUF_A) = 3300
          /\ Commanded(IO_BUF_A) = 3300
          /\ ST_ERROR \notin status') =>
           /\ Ceiling(IO_BUF_A)' = 1800
           /\ iobuf_get_voltage(io', IO_BUF_A, TRUE) = [ok |-> TRUE, mv |-> 1817]
     /\ (/\ VoltageGetStep
          /\ SETUPDAT.wIndex = IO_BUF_A
          /\ Ceiling(IO_BUF_A) = 1800
          /\ Commanded(IO_BUF_A) = 1800
          /\ ep0cs' = "in") =>
           EP0BUF' = <<1817>>]_vars

C16_Witness ==
  /\ SETUPDAT = Req(VENDOR_IN, USB_REQ_IO_VOLT, IO_BUF_A, 0, 2)
  /\ pc = "alert"
  /\ ep0cs = "in"
  /\ EP0BUF = <<1817>>
  /\ Ceiling(IO_BUF_A) = 1800
  /\ Commanded(IO_BUF_A) = 1800
  /\ ST_ERROR \notin status

\* the main loop runs handle_pending_alert in this step
AlertHandlingStep == pc = "alert" /\ ~armed_alert /\ pc' # pc
\* monitor p holds an alert and pulls the ~ALERT line
Alerting(p) == p \in adc.flag /\ ADC081_BIT_ALERT_PIN_EN \in adc.ctl[p]

\* C17: when handle_pending_alert has finished, every port whose monitor had
\* raised the alert that tripped the interrupt is off and ALERT is set; stated
\* for the runs of handle_pending_alert in which every monitor that still
\* holds an alert was reached and disarmed (no bus failure).
C17_TrippedPortsCutOff ==
  [][(/\ AlertHandlingStep
      /\ \A p \in Ports : p \in adc.flag => ADC081_BIT_ALERT_PIN_EN \notin adc'.ctl[p]) =>
       /\ \A p \in alert_trip : p \notin io'.en
       /\ ST_ALERT \in status']_vars

\* C18: detection is disarmed only by the interrupt handler, with the line
\* asserted and nothing else changed; the handler does not run while
\* disarmed; ALERT is latched only by handle_pending_alert, which runs only
\* while disarmed and re-arms in the same call, with the ports of the monitors
\* it disarmed switched off; nothing else re-arms.
C18_AlertArmCycle ==
  [][/\ (armed_alert /\ ~armed_alert') =>
          /\ iobuf_is_alerted_adc081c(adc)
          /\ alert_trip' # {}
          /\ UNCHANGED <<pc, arg, usbv, status, bitstream_idx, idv, io, adc, fpgav>>
     /\ (~armed_alert /\ alert_trip' # alert_trip) => (AlertHandlingStep /\ alert_trip' = {})
     /\ (ST_ALERT \notin status /\ ST_ALERT \in status') => AlertHandlingStep
     /\ AlertHandlingStep =>
          /\ armed_alert' /\ pc' = "setup" /\ ST_ALERT \in status'
          /\ \A p \in Ports :
               (Alerting(p) /\ ADC081_BIT_ALERT_PIN_EN \notin adc'.ctl[p]) => p \notin io'.en
     /\ (pc # "boot" /\ ~armed_alert /\ armed_alert') => AlertHandlingStep]_vars

C18_Witness ==
  /\ armed_alert
  /\ alert_trip = {}
  /\ pc = "setup"
  /\ status = {ST_ALERT}
  /\ IO_BUF_A \in adc.flag
  /\ ADC081_BIT_ALERT_PIN_EN \notin adc.ctl[IO_BUF_A]
  /\ ADC081_BIT_ALERT_HOLD \in adc.ctl[IO_BUF_A]
  /\ IO_BUF_A \notin io.en
  /\ io.cmd[IO_BUF_A] = 3300

\* C19: handle_pending_alert latches ALERT and re-arms whether or not the
\* query of the monitors succeeds; a port that is on while its monitor pulls
\* the line is eventually switched off, or its alert released by the host.
C19_FailedQueryRetried ==
  /\ [][AlertHandlingStep => (ST_ALERT \in status' /\ armed_alert')]_vars
  /\ \A p \in Ports : (Alerting(p) /\ p \in io.en) ~> (p \notin io.en \/ ~Alerting(p))

C19_Witness ==
  /\ SETUPDAT = Req(VENDOR_OUT, USB_REQ_IO_VOLT, IO_BUF_A, 0, 2)
  /\ ~pending_setup
  /\ EP0BUF = <<3300>>
  /\ status = {ST_ALERT}
  /\ armed_alert
  /\ Alerting(IO_BUF_A)
  /\ IO_BUF_A \notin io.en

\* C20: the step that admits a SETUP packet changes only pending_setup and
\* the endpoint, the step that disarms alert detection changes only the armed
\* flag; the status bits, the configuration record, bitstream_idx and the
\* port outputs change only in steps of the main loop.
C20_HandlersTouchOnlyOwnFlag ==
  [][/\ (~pending_setup /\ pending_setup') =>
          UNCHANGED <<pc, arg, status, bitstream_idx, idv, armed_alert, io, adc, fpgav>>
     /\ (armed_alert /\ ~armed_alert') =>
          UNCHANGED <<pc, arg, usbv, status, bitstream_idx, idv, io, adc, fpgav>>
     /\ (<<status, glasgow_config, bitstream_idx, io>>' # <<status, glasgow_config, bitstream_idx, io>>)
          => pc' # pc]_vars

C20_Witness ==
  /\ ~armed_alert
  /\ alert_trip = {IO_BUF_A}
  /\ pending_setup
  /\ ~setup_rejected
  /\ pc = "alert"
  /\ status = {ST_ERROR}
  /\ IO_BUF_A \in io.en

\* ------------------------------------------- chunk loop and alert family
\* a two-chunk EEPROM write, a monitor window, and the status query
LoopRequests ==
     {Req(VENDOR_OUT, USB_REQ_EEPROM, 1, 0, EP0_CHUNK * MaxChunks - 24)}
  \cup {Req(VENDOR_OUT, USB_REQ_ALERT_VOLT, IO_BUF_A, 0, 4)}
  \cup {Req(VENDOR_IN, USB_REQ_STATUS, 0, 0, 1)}

NextLoop ==
  \/ config_init
  \/ config_fixup
  \/ main_init
  \/ \E req \in LoopRequests : handle_usb_setup(req)
  \/ isr_IE0
  \/ \E p \in Ports : AlertRaised(p)
  \/ main_no_setup
  \/ main_no_alert
  \/ handle_pending_alert
  \/ req_eeprom
  \/ eeprom_chunk
  \/ req_alert_volt
  \/ req_status

SpecLoop == Init /\ [][NextLoop]_vars

\* C21: a main-loop iteration is one command phase followed by one alert
\* phase: the loop leaves "setup" only into a handler's chunk loop or into the
\* alert phase, a chunk loop only into the alert phase, and the alert phase
\* only back to "setup"; the admitted flag is cleared only by the command
\* phase, once; ALERT is latched and detection re-armed only by the step of
\* the alert phase; an alert interrupt taken while a handler is in its chunk
\* loop changes nothing but the arming (and the record of the trip).
C21_OneCommandThenOneAlert ==
  [][/\ (pc = "setup" /\ pc' # pc) => pc' \in IoPcs \cup {"alert"}
     /\ (pc \in IoPcs /\ pc' # pc) => pc' \in IoPcs \cup {"alert"}
     /\ (pc = "alert" /\ pc' # pc) => pc' = "setup"
     /\ (pending_setup /\ ~pending_setup') => (pc = "setup" /\ pc' # pc)
     /\ (\/ ST_ALERT \notin status /\ ST_ALERT \in status'
         \/ ~Booting /\ ~armed_alert /\ armed_alert')
          => (pc = "alert" /\ pc' = "setup")
     /\ (pc \in IoPcs /\ armed_alert /\ ~armed_alert')
          => UNCHANGED <<pc, arg, usbv, status, bitstream_idx, idv, io, adc, fpgav, i2cv>>]_vars

\* an alert interrupt was taken during the chunk loop of an EEPROM write and
\* waits, not latched, for the handler to return
C21_Witness ==
  /\ pc = "eeprom_io"
  /\ arg.len < SETUPDAT.wLength
  /\ ~armed_alert
  /\ alert_trip # {}
  /\ ST_ALERT \notin status

\* ------------------------------------------------------------ boot family
\* revisions a stored record can carry: the three legacy tags and the codes
\* of glasgow.h
BootRevisions ==
  {CHAR_A, CHAR_B, CHAR_C, GLASGOW_REV_A, GLASGOW_REV_B, GLASGOW_REV_C0, GLASGOW_REV_C1,
   GLASGOW_REV_NA}

\* first EEPROM byte: the two loads, erased, and a value that is neither
BootLoadCmds == {LOAD_CMD_C2, LOAD_CMD_C0, LOAD_CMD_BLANK, 0}

\* RAM at &glasgow_config that no C2 load has written
RamLeftover == ConfigRecord(0, "", BootImageSize, IdB)

InitBoot ==
  \E load_cmd \in BootLoadCmds, rev \in BootRevisions, size \in {0, BootImageSize} :
    LET rec == ConfigRecord(rev, FactorySerial, size, IdA)
    IN PowerOn(Storage(load_cmd, rec), IF load_cmd = LOAD_CMD_C2 THEN rec ELSE RamLeftover)

\* the device is unplugged and plugged in again: the EEPROM keeps its
\* contents, everything else starts over
power_cycle ==
  /\ ~Booting
  /\ pc' = "config"
  /\ arg' = NoArg
  /\ pending_setup' = FALSE
  /\ SETUPDAT' = Req(VENDOR_IN, USB_REQ_API_LEVEL, 0, 0, 1)
  /\ setup_rejected' = FALSE
  /\ ep0cs' = "idle"
  /\ EP0BUF' = <<>>
  /\ status' = {}
  /\ bitstream_idx' = 0
  /\ glasgow_config' = IF eeprom.load_cmd = LOAD_CMD_C2 THEN eeprom.config ELSE RamLeftover
  /\ armed_alert' = FALSE
  /\ alert_trip' = {}
  /\ io' = [en |-> {}, dac |-> [p \in Ports |-> 0], cmd |-> [p \in Ports |-> 0]]
  /\ adc' = [flag |-> {}, ctl |-> [p \in Ports |-> {}],
             lo |-> [p \in Ports |-> 0], hi |-> [p \in Ports |-> 4080]]
  /\ cdone' = FALSE
  /\ fpga_chan' = "Idle"
  /\ fpga_bytes' = 0
  /\ start_unreported' = FALSE
  /\ id_cleared' = FALSE
  /\ fpga_reg' = [addr |-> 0, data |-> <<>>]
  /\ pull' = [p \in Ports |-> [level |-> 255, cfg |-> 255]]
  /\ ina233' = [p \in Ports |-> Ina233PowerOn]
  /\ alert_window' = [p \in Ports |-> <<>>]
  /\ err_led' = FALSE
  /\ UNCHANGED eeprom

\* the status query, and the host writing the first 64 bytes of the EEPROM
BootRequests ==
     {Req(VENDOR_IN, USB_REQ_STATUS, 0, 0, 1)}
  \cup {Req(VENDOR_OUT, USB_REQ_EEPROM, 0, 0, EP0_CHUNK)}

NextBoot ==
  \/ config_init
  \/ config_fixup
  \/ main_init
  \/ power_cycle
  \/ \E req \in BootRequests : handle_usb_setup(req)
  \/ main_no_setup
  \/ main_no_alert
  \/ req_status
  \/ req_eeprom
  \/ eeprom_chunk

SpecBoot == InitBoot /\ [][NextBoot]_vars

\* the record holds the defaults of config_init
DefaultsLoaded(cfg) ==
  /\ cfg.revision = GLASGOW_REV_NA
  /\ cfg.serial = DefaultSerial
  /\ cfg.bitstream_size = 0

ConfigInitStep == pc = "config" /\ pc' # pc

\* C22: config_init ends in one of three ways, selected by the marker byte:
\* the record in RAM untouched (possible only with marker 0xC2), the record
\* equal to the stored one (only with marker 0xC0), or the defaults revision
\* 0xF9, serial "9999999999999999", image size 0; with any other marker, 0xFF
\* included, it is the defaults. The step latches no ERROR and writes nothing.
C22_ConfigInitThreePaths ==
  [][ConfigInitStep =>
       /\ \/ eeprom.load_cmd = LOAD_CMD_C2 /\ glasgow_config' = glasgow_config
          \/ eeprom.load_cmd = LOAD_CMD_C0 /\ glasgow_config' = eeprom.config
          \/ DefaultsLoaded(glasgow_config')
       /\ eeprom.load_cmd \notin {LOAD_CMD_C2, LOAD_CMD_C0} => DefaultsLoaded(glasgow_config')
       /\ status' = status
       /\ eeprom' = eeprom]_vars

\* config_init has run on an erased EEPROM: the defaults are in RAM, where
\* the leftover had another revision and a non-zero image size
C22_Witness ==
  /\ pc = "fixup"
  /\ eeprom.load_cmd = LOAD_CMD_BLANK
  /\ DefaultsLoaded(glasgow_config)
  /\ glasgow_config.bitstream_id = RamLeftover.bitstream_id
  /\ ~DefaultsLoaded(RamLeftover)
  /\ ST_ERROR \notin status

\* C23: while main() is between config_init and usb_init, a marker byte that
\* is neither 0xC2 nor 0xC0 means the defaults are in RAM, and with the
\* defaults in RAM neither config_fixup nor the rest of the boot touches the
\* FPGA: no reset (CDONE, the I/O buffers), no byte loaded, no start, no ERROR
\* latched, and the defaults stay.
C23_DefaultsSkipFpgaAtBoot ==
  [][(pc \in {"fixup", "boot"}) =>
       /\ eeprom.load_cmd \notin {LOAD_CMD_C2, LOAD_CMD_C0} => DefaultsLoaded(glasgow_config)
       /\ DefaultsLoaded(glasgow_config) =>
            (/\ DefaultsLoaded(glasgow_config')
             /\ fpga_chan' = "Idle"
             /\ fpga_bytes' = 0
             /\ UNCHANGED <<cdone, io, status, start_unreported>>)]_vars

\* the boot has finished on an erased marker byte in front of a stored record
\* that names an image: the defaults are loaded and the FPGA was left alone
C23_Witness ==
  /\ pc = "setup"
  /\ ep0cs = "idle"
  /\ armed_alert
  /\ eeprom.load_cmd = LOAD_CMD_BLANK
  /\ eeprom.config.bitstream_size = BootImageSize
  /\ DefaultsLoaded(glasgow_config)
  /\ fpga_chan = "Idle"
  /\ fpga_bytes = 0
  /\ status = {}

LegacyRevisions == {CHAR_A, CHAR_B, CHAR_C}

ConfigFixupStep == pc = "fixup" /\ pc' # pc

\* C24: config_fixup turns the revision tags 'A', 'B', 'C' into 0x10, 0x20,
\* 0x30 and writes storage: byte 7, the marker (to 0xC0), the device id
\* revision byte and the revision byte of the stored record, each of which is
\* afterwards the new value or, its write having failed, the old one; no other
\* field of the record or of storage changes. For every other revision, the
\* codes of glasgow.h among them, record and storage are left as they are. The
\* revision it leaves is never a legacy tag, so a second run changes nothing.
C24_FixupMigratesLegacyOnly ==
  [][ConfigFixupStep =>
       LET old == glasgow_config.revision
           new == glasgow_config'.revision
       IN /\ old = CHAR_A => new = 16
          /\ old = CHAR_B => new = 32
          /\ old = CHAR_C => new = 48
          /\ old \notin LegacyRevisions => UNCHANGED <<glasgow_config, eeprom>>
          /\ new \notin LegacyRevisions
          /\ glasgow_config' = [glasgow_config EXCEPT !.revision = new]
          /\ eeprom'.i2c_cfg \in {eeprom.i2c_cfg, 1}
          /\ eeprom'.load_cmd \in {eeprom.load_cmd, 192}
          /\ eeprom'.did_rev \in {eeprom.did_rev, new}
          /\ eeprom'.config.revision \in {eeprom.config.revision, new}
          /\ [eeprom'.config EXCEPT !.revision = 0] = [eeprom.config EXCEPT !.revision = 0]]_vars

\* a record with the tag 'B' has been migrated and all four writes went
\* through: RAM and storage carry 0x20 and the marker is a C0 load
C24_Witness ==
  /\ pc = "boot"
  /\ glasgow_config.revision = GLASGOW_REV_B
  /\ eeprom.config.revision = GLASGOW_REV_B
  /\ eeprom.did_rev = GLASGOW_REV_B
  /\ eeprom.load_cmd = LOAD_CMD_C0
  /\ eeprom.i2c_cfg = I2C_400KHZ

\* C25: a ceiling-set that ends without ERROR has stored the ceilings: the
\* stored ceilings equal the ones in RAM and the addressed port's ceiling is
\* the value sent. Whatever the command writes to storage is the ceilings in
\* RAM, into the ceiling field only. Where the stored ceilings differ from the
\* ones in RAM afterwards (the write failed) ERROR is latched, and the RAM
\* value is not taken back. A command the driver rejected (the port's ceiling
\* is not the value sent) has written nothing.
C25_CeilingPersistedInCommand ==
  [][(CeilingSetStep /\ SETUPDAT.wIndex = IO_BUF_A) =>
       LET sent == EP0BUF'[1]
           ram  == glasgow_config'.voltage_limit
       IN /\ ST_ERROR \notin status' =>
               (eeprom'.config.voltage_limit = ram /\ ram[0] = sent)
          /\ eeprom' \in {eeprom, [eeprom EXCEPT !.config.voltage_limit = ram]}
          /\ eeprom'.config.voltage_limit # ram => ST_ERROR \in status'
          /\ ram[0] # sent => (eeprom' = eeprom /\ ST_ERROR \in status')
          /\ ram[0] \in {sent, glasgow_config.voltage_limit[0]}]_vars

\* a ceiling-set of 1800 mV on port A was accepted and its write to storage
\* failed: RAM has 1800, storage still the 5500 of the factory, ERROR is set
C25_Witness ==
  /\ pc = "alert"
  /\ IsLimitVolt(SETUPDAT)
  /\ SETUPDAT.bmRequestType = VENDOR_OUT
  /\ EP0BUF = <<1800>>
  /\ glasgow_config.voltage_limit[0] = 1800
  /\ eeprom.config.voltage_limit[0] = MAX_VOLTAGE
  /\ ST_ERROR \in status

\* the main loop serves an index-0 download / an identifier-set in this step
IndexZeroStep == Serving /\ IsFpgaCfg(SETUPDAT, bitstream_idx) /\ SETUPDAT.wIndex = 0 /\ pc' # pc
IdentifierSetStep ==
  Serving /\ IsBitstreamId(SETUPDAT) /\ SETUPDAT.bmRequestType = VENDOR_OUT /\ pc' # pc

\* C26 as stated: after an index-0 download, and after an identifier-set that
\* was not stalled, the stored identifier equals the one in RAM.
C26_IdentifierPersisted ==
  [][(IndexZeroStep \/ (IdentifierSetStep /\ ep0cs' # "stall")) =>
       eeprom'.config.bitstream_id = glasgow_config'.bitstream_id]_vars

\* C26, amended: an index-0 download zeroes the identifier in RAM, an
\* identifier-set that is not stalled puts the host's identifier into RAM, and
\* neither command writes storage: the stored record is what it was.
C26_IdentifierChangedInRamOnly ==
  [][/\ IndexZeroStep =>
          (glasgow_config'.bitstream_id = ZeroId /\ eeprom' = eeprom)
     /\ IdentifierSetStep =>
          /\ eeprom' = eeprom
          /\ ep0cs' # "stall" => (glasgow_config'.bitstream_id = EP0BUF' /\ EP0BUF' \in HostIds)
          /\ ep0cs' = "stall" => glasgow_config' = glasgow_config]_vars

\* an identifier-set has stored an identifier in RAM that storage does not have
C26_Witness ==
  /\ pc = "alert"
  /\ IsBitstreamId(SETUPDAT)
  /\ SETUPDAT.bmRequestType = VENDOR_OUT
  /\ ep0cs = "out"
  /\ glasgow_config.bitstream_id = IdB
  /\ EP0BUF = IdB
  /\ eeprom.config.bitstream_id = IdA

\* ------------------------------------------------------------ EEPROM family
\* reads and writes of 0, 96 and 130 bytes at 4000, through every chip
\* selector the handler knows, one it does not, and the Cypress request
EepromRequests ==
     {Req(d, USB_REQ_EEPROM, c, 4000, l) :
        d \in {VENDOR_IN, VENDOR_OUT}, c \in 0..4, l \in {0, 96, 130}}
  \cup {Req(d, USB_REQ_CYPRESS_EEPROM_DB, 0, 4000, 96) : d \in {VENDOR_IN, VENDOR_OUT}}

NextEeprom ==
  \/ config_init
  \/ config_fixup
  \/ main_init
  \/ \E req \in EepromRequests : handle_usb_setup(req)
  \/ main_no_setup
  \/ main_no_alert
  \/ req_eeprom
  \/ eeprom_chunk

SpecEeprom == Init /\ [][NextEeprom]_vars

\* C27: an EEPROM request with no chip for its selector is stalled and
\* transfers nothing; any other enters the chunk loop with its address and
\* length (or returns at once for length 0). A pass of the loop either
\* transfers min(length left, 64) bytes, moving the address up and the length
\* left down by that much and staying in the loop while bytes are left, or
\* fails: the request is stalled, the loop is left, address and length left
\* stay where the failing chunk began and storage is not changed. So in the
\* loop the bytes done are a whole number of 64-byte chunks of some request,
\* counted from its start address.
C27_EepromChunks ==
  [][/\ (Serving /\ IsEeprom(SETUPDAT) /\ pc' # pc) =>
          IF EepromChip(SETUPDAT) = 0
            THEN ep0cs' = "stall" /\ pc' = "alert" /\ UNCHANGED <<arg, eeprom>>
            ELSE /\ arg'.addr = EepromAddr(SETUPDAT)
                 /\ arg'.len = SETUPDAT.wLength
                 /\ pc' = IF SETUPDAT.wLength > 0 THEN "eeprom_io" ELSE "alert"
                 /\ UNCHANGED <<ep0cs, eeprom>>
     /\ (pc = "eeprom_io" /\ <<pc, arg>>' # <<pc, arg>>) =>
          LET n == IF arg.len < 64 THEN arg.len ELSE 64 IN
          \/ /\ arg'.len = arg.len - n
             /\ arg'.addr = (arg.addr + n) % 65536
             /\ ep0cs' \in {"in", "out"}
             /\ pc' = IF arg'.len > 0 THEN "eeprom_io" ELSE "alert"
          \/ /\ ep0cs' = "stall"
             /\ pc' = "alert"
             /\ UNCHANGED <<arg, eeprom>>
     /\ pc = "eeprom_io" =>
          /\ arg.len > 0
          /\ \E req \in EepromRequests :
               /\ arg.chip = EepromChip(req)
               /\ arg.addr >= EepromAddr(req)
               /\ (arg.addr - EepromAddr(req)) % 64 = 0
               /\ arg.addr + arg.len = EepromAddr(req) + req.wLength]_vars

\* the second chunk of a 130-byte write at 4000 has failed: the request is
\* stalled with 64 bytes done and 66 left, the third chunk never tried
C27_Witness ==
  /\ pc = "alert"
  /\ ep0cs = "stall"
  /\ ~arg.read
  /\ arg.chip = I2C_ADDR_FX2_MEM
  /\ arg.addr = 4064
  /\ arg.len = 66

\* ------------------------------------------------- bus transaction family
\* EEPROM and FPGA register transfers in both directions, and the status query
BusRequests ==
     {Req(d, USB_REQ_EEPROM, 1, 4000, 96) : d \in {VENDOR_IN, VENDOR_OUT}}
  \cup {Req(d, USB_REQ_REGISTER, 0, 1, 1) : d \in {VENDOR_IN, VENDOR_OUT}}
  \cup {Req(VENDOR_IN, USB_REQ_STATUS, 0, 0, 1)}

NextBus ==
  \/ config_init
  \/ config_fixup
  \/ main_init
  \/ \E req \in BusRequests : handle_usb_setup(req)
  \/ main_no_setup
  \/ main_no_alert
  \/ req_eeprom
  \/ eeprom_chunk
  \/ req_register
  \/ req_status

SpecBus == Init /\ [][NextBus]_vars

\* a pass of the EEPROM chunk loop whose transfer failed
EepromChunkFailed == pc = "eeprom_io" /\ pc' = "alert" /\ arg' = arg

RegisterStep == Serving /\ IsRegister(SETUPDAT) /\ pc' # pc

\* C28: a failed chunk of an EEPROM read or write, and a register request
\* that failed in its address select or in its read, leave ERROR latched.
C28_TransportFaultLatchesError ==
  [][(EepromChunkFailed \/ (RegisterStep /\ ep0cs' = "stall")) => ST_ERROR \in status']_vars

\* C29: a register request ends with a fault the host can see, a stall or
\* ERROR, whenever one of its phases failed; for a write, whenever the bytes
\* of the data stage are not the bytes the register port has taken.
C29_RegisterFaultReported ==
  [][(RegisterStep /\ SETUPDAT.bmRequestType = VENDOR_OUT /\ fpga_reg'.data # EP0BUF')
       => (ep0cs' = "stall" \/ ST_ERROR \in status')]_vars

\* ------------------------------------------------ peripheral command family
\* get and set of the voltage, the alert window, the ceiling and the pulls of
\* port A, and the status query
PeriphRequests ==
     {Req(d, USB_REQ_IO_VOLT, IO_BUF_A, 0, 2) : d \in {VENDOR_IN, VENDOR_OUT}}
  \cup {Req(d, USB_REQ_ALERT_VOLT, IO_BUF_A, 0, 4) : d \in {VENDOR_IN, VENDOR_OUT}}
  \cup {Req(d, USB_REQ_LIMIT_VOLT, IO_BUF_A, 0, 2) : d \in {VENDOR_IN, VENDOR_OUT}}
  \cup {Req(d, USB_REQ_PULL, IO_BUF_A, 0, 2) : d \in {VENDOR_IN, VENDOR_OUT}}
  \cup {Req(VENDOR_IN, USB_REQ_STATUS, 0, 0, 1)}

NextPeriph ==
  \/ config_init
  \/ config_fixup
  \/ main_init
  \/ \E req \in PeriphRequests : handle_usb_setup(req)
  \/ main_no_setup
  \/ main_no_alert
  \/ req_io_volt
  \/ req_alert_volt
  \/ req_limit_volt
  \/ req_pull
  \/ req_status

SpecPeriph == Init /\ [][NextPeriph]_vars

\* the main loop serves the get direction of a peripheral command in this step
PeripheralGetStep ==
  /\ Serving
  /\ SETUPDAT.bmRequestType = VENDOR_IN
  /\ IsIoVolt(SETUPDAT) \/ IsAlertVolt(SETUPDAT) \/ IsLimitVolt(SETUPDAT) \/ IsPull(SETUPDAT)
  /\ pc' # pc

\* C30: a get of the voltage, the alert window, the ceiling or the pulls
\* that is answered with a stall, its driver having failed, leaves ERROR
\* latched as well.
C30_FailedGetLatchesError ==
  [][(PeripheralGetStep /\ ep0cs' = "stall") => ST_ERROR \in status']_vars


\* --------------------------------------------------------- monitor family
\* a revC1 and a revC2 device, no stored image
InitMonitor ==
  \E rev \in {GLASGOW_REV_C1, GLASGOW_REV_C2} :
    LET rec == ConfigRecord(rev, FactorySerial, 0, IdA)
    IN PowerOn(Storage(LOAD_CMD_C2, rec), rec)

\* alert window set and get on either port, set on both, and the status query
MonitorRequests ==
     {Req(d, USB_REQ_ALERT_VOLT, p, 0, 4) : d \in {VENDOR_IN, VENDOR_OUT}, p \in Ports}
  \cup {Req(VENDOR_OUT, USB_REQ_ALERT_VOLT, IO_BUF_ALL, 0, 4)}
  \cup {Req(VENDOR_IN, USB_REQ_STATUS, 0, 0, 1)}
  \cup {Req(VENDOR_IN, USB_REQ_POLL_ALERT, 0, 0, 1)}

NextMonitor ==
  \/ config_init
  \/ config_fixup
  \/ main_init
  \/ \E req \in MonitorRequests : handle_usb_setup(req)
  \/ isr_IE0
  \/ \E p \in Ports : AlertRaised(p)
  \/ main_no_setup
  \/ main_no_alert
  \/ handle_pending_alert
  \/ req_status
  \/ req_alert_volt
  \/ req_poll_alert

SpecMonitor == InitMonitor /\ [][NextMonitor]_vars

\* the alert window of port p is read and returned to the host
AlertGetStep(p) ==
  /\ pc = "setup" /\ pending_setup /\ IsAlertVolt(SETUPDAT)
  /\ SETUPDAT.bmRequestType = VENDOR_IN /\ SETUPDAT.wIndex = p
  /\ pc' = "alert" /\ ep0cs' = "in"

\* C31: once an alert window of (0, MAX_VOLTAGE) has been set on a port, a
\* get of that port's window returns (0, MAX_VOLTAGE), on the ADC081C
\* revisions and on revC2 (INA233) alike.
C31_DisabledWindowReadBack ==
  [][\A p \in Ports :
       (AlertGetStep(p) /\ alert_window[p] = <<0, MAX_VOLTAGE>>)
         => EP0BUF' = <<0, MAX_VOLTAGE>>]_vars

\* a revC1 device has returned the disabled window of port A while the
\* monitor of port B runs with a window of its own
C31_Witness ==
  /\ glasgow_config.revision = GLASGOW_REV_C1
  /\ pc = "alert" /\ ep0cs = "in"
  /\ IsAlertVolt(SETUPDAT) /\ SETUPDAT.bmRequestType = VENDOR_IN /\ SETUPDAT.wIndex = IO_BUF_A
  /\ alert_window[IO_BUF_A] = <<0, MAX_VOLTAGE>>
  /\ alert_window[IO_BUF_B] = <<1000, 4000>>
  /\ adc.ctl[IO_BUF_B] # {}
  /\ EP0BUF = <<0, MAX_VOLTAGE>>


\* ----------------------------------------------------------- range family
RangeRequests ==
     {Req(VENDOR_OUT, USB_REQ_IO_VOLT, m, 0, 2) : m \in {IO_BUF_A, IO_BUF_B, IO_BUF_ALL}}
  \cup {Req(VENDOR_IN, USB_REQ_STATUS, 0, 0, 1)}

\* values at and beyond both ends of the range of the regulator
req_io_volt_range == io_volt_request({0, 1000, 1649, 1650, 3300, 5500, 5501})

NextRange ==
  \/ config_init
  \/ config_fixup
  \/ main_init
  \/ \E req \in RangeRequests : handle_usb_setup(req)
  \/ main_no_setup
  \/ main_no_alert
  \/ req_io_volt_range
  \/ req_status

SpecRange == Init /\ [][NextRange]_vars

\* the value a clamp to the range of the regulator gives
ClampToRange(millivolts) ==
  IF millivolts < MIN_VOLTAGE THEN MIN_VOLTAGE
  ELSE IF millivolts > MAX_VOLTAGE THEN MAX_VOLTAGE ELSE millivolts

OutOfRange(millivolts) ==
  millivolts # 0 /\ (millivolts < MIN_VOLTAGE \/ millivolts > MAX_VOLTAGE)

\* C32 (as stated): a voltage-set with a non-zero value outside
\* MIN_VOLTAGE..MAX_VOLTAGE leaves each selected port at the nearest bound
\* of the range (where the ceiling of the port admits that bound).
C32_OutOfRangeClamped ==
  [][(VoltageSetStep /\ OutOfRange(EP0BUF'[1])) =>
       \A p \in Ports :
         (HasBit(SETUPDAT.wIndex % 256, p) /\ ClampToRange(EP0BUF'[1]) <= Ceiling(p))
           => (p \in io'.en /\ io'.cmd[p] = ClampToRange(EP0BUF'[1]))]_vars

\* C32 (amended): a voltage-set with a non-zero value outside
\* MIN_VOLTAGE..MAX_VOLTAGE is refused: no port changes and ERROR is latched;
\* a voltage-set of 0 switches the selected ports off, leaves the DAC code
\* words alone and latches nothing.
C32_OutOfRangeRefused ==
  [][VoltageSetStep =>
       /\ OutOfRange(EP0BUF'[1]) => (io' = io /\ ST_ERROR \in status')
       /\ EP0BUF'[1] = 0 =>
            /\ io'.en = io.en \ {p \in Ports : HasBit(SETUPDAT.wIndex % 256, p)}
            /\ io'.dac = io.dac
            /\ status' = status]_vars

\* a set of 1000 mV on port A has been refused: the port keeps its 3300 mV
C32_Witness ==
  /\ pc = "alert"
  /\ IsIoVolt(SETUPDAT) /\ SETUPDAT.bmRequestType = VENDOR_OUT /\ SETUPDAT.wIndex = IO_BUF_A
  /\ EP0BUF = <<1000>>
  /\ ST_ERROR \in status
  /\ IO_BUF_A \in io.en /\ io.cmd[IO_BUF_A] = 3300


\* ------------------------------------------------------- API level family
\* the API level query among voltage sets, alert window sets and status queries
ApiRequests ==
     {Req(VENDOR_IN, USB_REQ_API_LEVEL, 0, 0, 1)}
  \cup {Req(VENDOR_IN, USB_REQ_STATUS, 0, 0, 1)}
  \cup {Req(VENDOR_OUT, USB_REQ_IO_VOLT, IO_BUF_A, 0, 2)}
  \cup {Req(VENDOR_OUT, USB_REQ_ALERT_VOLT, IO_BUF_A, 0, 4)}
  \cup {Req(VENDOR_OUT, USB_REQ_FPGA_CFG, 1, 0, 0)}

NextApi ==
  \/ config_init
  \/ config_fixup
  \/ main_init
  \/ \E req \in ApiRequests : handle_usb_setup(req)
  \/ isr_IE0
  \/ \E p \in Ports : AlertRaised(p)
  \/ main_no_setup
  \/ main_no_alert
  \/ handle_pending_alert
  \/ req_status
  \/ req_io_volt
  \/ req_alert_volt
  \/ req_fpga_cfg
  \/ req_api_level

SpecApi == Init /\ [][NextApi]_vars

\* the main loop serves the API level query in this step
ApiLevelStep == Serving /\ IsApiLevel(SETUPDAT) /\ pc' # pc

\* C33: the API level query answers 4 in every state, clears pending_setup,
\* and leaves the status bits, bitstream_idx, the configuration record, the
\* port voltages, the alert windows and the alert arming as they were.
C33_ApiLevelConstantNoEffect ==
  [][ApiLevelStep =>
       /\ EP0BUF' = <<4>> /\ ep0cs' = "in"
       /\ ~pending_setup'
       /\ UNCHANGED <<status, err_led, bitstream_idx, glasgow_config, eeprom, io, adc,
                      ina233, armed_alert, alert_trip, fpgav, pull, fpga_reg>>]_vars

\* the query has been answered while ERROR and ALERT are latched, port A is
\* switched off by the supervisor and a download is part-way
C33_Witness ==
  /\ pc = "alert" /\ IsApiLevel(SETUPDAT) /\ ~pending_setup
  /\ EP0BUF = <<4>> /\ ep0cs = "in"
  /\ status = {ST_ERROR, ST_ALERT}
  /\ io.cmd[IO_BUF_A] = 3300 /\ IO_BUF_A \notin io.en
  /\ bitstream_idx = 1


\* C34: in every reachable state, from power-on, the ERR LED is lit exactly
\* when ERROR or ALERT is latched in the status register.
C34_ErrLedMirrorsLatch == err_led = (ST_ERROR \in status \/ ST_ALERT \in status)


\* ------------------------------------------------------------ tail family
\* selector 3 at and around the ends of its window, and selector 1
TailRequests ==
     {Req(VENDOR_OUT, USB_REQ_EEPROM, 3, a, l) :
        a \in {0, 4000, 4096, 4097, 65535}, l \in {0, 2, 96, 4096, 4097}}
  \cup {Req(VENDOR_IN, USB_REQ_EEPROM, 3, 4000, 96)}
  \cup {Req(VENDOR_OUT, USB_REQ_EEPROM, 1, 4000, 96)}

NextTail ==
  \/ config_init
  \/ config_fixup
  \/ main_init
  \/ \E req \in TailRequests : handle_usb_setup(req)
  \/ main_no_setup
  \/ main_no_alert
  \/ req_eeprom
  \/ eeprom_chunk

SpecTail == Init /\ [][NextTail]_vars

\* the main loop takes up an EEPROM request on selector 3 in this step
TailRequestStep ==
  /\ Serving /\ IsEeprom(SETUPDAT)
  /\ SETUPDAT.bRequest = USB_REQ_EEPROM /\ SETUPDAT.wIndex = 3
  /\ pc' # pc

\* C35: a request on selector 3 is taken up exactly when address <= 0x1000,
\* length <= 0x1000 and address + length <= 0x1000, and is otherwise stalled
\* with nothing transferred; every byte of a request taken up is accessed in
\* FX2_MEM between 0x7000 and 0x7fff, the address counting up without wrap.
C35_TailWindow ==
  /\ [][TailRequestStep =>
          IF /\ SETUPDAT.wValue <= 4096 /\ SETUPDAT.wLength <= 4096
             /\ SETUPDAT.wValue + SETUPDAT.wLength <= 4096
            THEN /\ ep0cs' = ep0cs
                 /\ arg'.chip = I2C_ADDR_FX2_MEM
                 /\ arg'.addr = 28672 + SETUPDAT.wValue
                 /\ arg'.len = SETUPDAT.wLength
            ELSE /\ ep0cs' = "stall" /\ pc' = "alert"
                 /\ UNCHANGED <<arg, eeprom, EP0BUF>>]_vars
  /\ [][(pc = "eeprom_io" /\ arg.chip = I2C_ADDR_FX2_MEM /\ arg' # arg) =>
          /\ arg.addr >= 28672
          /\ arg.addr + (arg.len - arg'.len) <= 32768
          /\ arg'.addr = arg.addr + (arg.len - arg'.len)
          /\ arg'.len < arg.len]_vars
  /\ [](pc = "eeprom_io" /\ arg.chip = I2C_ADDR_FX2_MEM
          => (arg.addr >= 28672 /\ arg.addr + arg.len <= 32768))

\* a write of 4096 bytes at address 0 of the window has stored its last
\* byte at 0x7fff
C35_Witness ==
  /\ pc = "alert"
  /\ arg.chip = I2C_ADDR_FX2_MEM /\ ~arg.read
  /\ arg.addr = 32768 /\ arg.len = 0
  /\ SETUPDAT = Req(VENDOR_OUT, USB_REQ_EEPROM, 3, 0, 4096)
  /\ ~pending_setup
  /\ ep0cs = "out"


\* ----------------------------------------------------------- reset family
\* a revB and a revC1 device, with and without a stored image
InitReset ==
  \E rev \in {GLASGOW_REV_B, GLASGOW_REV_C1}, size \in {0, BootImageSize} :
    LET rec == ConfigRecord(rev, FactorySerial, size, IdA)
    IN PowerOn(Storage(LOAD_CMD_C2, rec), rec)

\* voltage sets on port A and on both ports, ceiling sets on port A, and a
\* download that starts over
ResetRequests ==
     {Req(VENDOR_OUT, USB_REQ_IO_VOLT, m, 0, 2) : m \in {IO_BUF_A, IO_BUF_ALL}}
  \cup {Req(VENDOR_OUT, USB_REQ_LIMIT_VOLT, IO_BUF_A, 0, 2)}
  \cup {Req(VENDOR_OUT, USB_REQ_FPGA_CFG, 0, 0, 0)}

NextReset ==
  \/ config_init
  \/ config_fixup
  \/ main_init
  \/ \E req \in ResetRequests : handle_usb_setup(req)
  \/ main_no_setup
  \/ main_no_alert
  \/ req_io_volt
  \/ req_limit_volt
  \/ req_fpga_cfg

SpecReset == InitReset /\ [][NextReset]_vars

\* fpga_reset runs in this step: the auto-load of boot, or an index-0 download
FpgaResetStep ==
  \/ pc = "boot" /\ glasgow_config.bitstream_size > 0 /\ pc' = "setup"
  \/ IndexZeroStep

C37_CutoffAlwaysSucceeds ==
  /\ [](\A mask \in {0, IO_BUF_A, IO_BUF_B, IO_BUF_ALL, 255}, i2c_ok \in BOOLEAN :
          LET r == iobuf_set_voltage(io, glasgow_config.voltage_limit, mask, 0, i2c_ok) IN
          /\ r.ok
          /\ r.io.en = io.en \ {p \in Ports : HasBit(mask, p)}
          /\ r.io.dac = io.dac /\ r.io.cmd = io.cmd)
  /\ [][(VoltageSetStep /\ EP0BUF'[1] = 0) =>
          /\ \A p \in Ports : HasBit(SETUPDAT.wIndex % 256, p) => Commanded(p)' = 0
          /\ io'.dac = io.dac
          /\ UNCHANGED <<status, err_led>>]_vars

\* a set of 0 mV on both ports has been served while the ceiling of port A
\* is 0 and port B was on at 3300 mV: both ports are off, nothing is latched
C37_Witness ==
  /\ pc = "alert" /\ ~pending_setup
  /\ IsIoVolt(SETUPDAT) /\ SETUPDAT.bmRequestType = VENDOR_OUT /\ SETUPDAT.wIndex = IO_BUF_ALL
  /\ EP0BUF = <<0>>
  /\ glasgow_config.voltage_limit[0] = 0
  /\ io.en = {} /\ io.cmd[IO_BUF_B] = 3300
  /\ ST_ERROR \notin status


\* -------------------------------------------------------- auto-load family
\* stored image sizes: none, one byte, around one chunk, two chunks and more
InitAutoload ==
  \E size \in {0, 1, BOOT_CHUNK - 1, BOOT_CHUNK, BOOT_CHUNK + 1, BootImageSize,
               2 * BOOT_CHUNK, 1000} :
    LET rec == ConfigRecord(GLASGOW_REV_C1, FactorySerial, size, IdA)
    IN PowerOn(Storage(LOAD_CMD_C2, rec), rec)

NextAutoload ==
  \/ config_init
  \/ config_fixup
  \/ main_init
  \/ power_cycle
  \/ \E req \in BootRequests : handle_usb_setup(req)
  \/ main_no_setup
  \/ main_no_alert
  \/ req_status
  \/ req_eeprom
  \/ eeprom_chunk

SpecAutoload == InitAutoload /\ [][NextAutoload]_vars

\* main() runs from iobuf_init_dac_ldo to usb_init with an image to load
AutoloadStep == pc = "boot" /\ glasgow_config.bitstream_size > 0 /\ pc' # pc

\* C38: the auto-load ends for every stored size and boot goes on to
\* usb_init: the FPGA is reset, the image is forwarded in chunks of at most
\* 128 bytes, fpga_start is called exactly when every byte was read; a
\* failed storage read latches ERROR and ends the load without fpga_start, a
\* failed fpga_start latches ERROR, and a load that succeeds latches nothing.
C38_AutoloadTerminates ==
  /\ [](pc = "boot" => ENABLED main_init)
  /\ [][AutoloadStep =>
          LET size == glasgow_config.bitstream_size IN
          /\ pc' = "setup"
          /\ \E fail_at \in 0..BootChunks(size) :
               LET run == autoload_loop(size, 0, 0, fail_at) IN
               /\ fpga_bytes' = size - run.length
               /\ run.longest <= 128
               /\ run.passes <= BootChunks(size)
               /\ run.broke <=> ~start_unreported'
               /\ run.broke <=> run.length > 0
          /\ start_unreported' <=> fpga_bytes' = size
          /\ ~start_unreported' => (ST_ERROR \in status' /\ fpga_chan' = "Loading" /\ ~cdone')
          /\ (start_unreported' /\ ~cdone') => (ST_ERROR \in status' /\ fpga_chan' = "Faulted")
          /\ (start_unreported' /\ cdone') => (status' = status /\ fpga_chan' = "Ready")]_vars

\* the storage read of the last chunk of a 1000-byte image has failed: 896
\* bytes forwarded, fpga_start not called, ERROR latched, main loop entered
C38_Witness ==
  /\ pc = "setup"
  /\ glasgow_config.bitstream_size = 1000
  /\ fpga_bytes = 896 /\ fpga_chan = "Loading" /\ ~start_unreported
  /\ ST_ERROR \in status /\ err_led


\* ------------------------------------------------------------ copy family
\* downloads of two chunks, EEPROM transfers of three, and a voltage set
CopyRequests ==
     {Req(VENDOR_OUT, USB_REQ_FPGA_CFG, i, 0, EP0_CHUNK * MaxChunks - 24) : i \in 0..MaxIdx}
  \cup {Req(VENDOR_OUT, USB_REQ_EEPROM, 1, 4000, 130)}
  \cup {Req(VENDOR_IN, USB_REQ_EEPROM, 2, 256, 96)}
  \cup {Req(VENDOR_OUT, USB_REQ_IO_VOLT, IO_BUF_A, 0, 2)}

NextCopy ==
  \/ config_init
  \/ config_fixup
  \/ main_init
  \/ \E req \in CopyRequests : handle_usb_setup(req)
  \/ main_no_setup
  \/ main_no_alert
  \/ req_fpga_cfg
  \/ fpga_cfg_chunk
  \/ req_eeprom
  \/ eeprom_chunk
  \/ req_io_volt

SpecCopy == Init /\ [][NextCopy]_vars

\* C39: while the chunk loop of a command runs, a SETUP packet that
\* overwrites SETUPDAT changes nothing of the command: its arg_* copies, its
\* position and its effects; the loop works from the copies alone (the chunk
\* index stored at the end is arg_idx, the EEPROM address and length move
\* together from the values of the request that was taken up).
C39_ParametersCopied ==
  /\ [][(pc \in IoPcs /\ SETUPDAT' # SETUPDAT) =>
          UNCHANGED <<arg, pc, bitstream_idx, eeprom, fpga_bytes, io>>]_vars
  /\ [][(pc = "cfg_io" /\ pc' = "alert") => bitstream_idx' = arg.idx]_vars
  /\ [][(pc = "cfg_io" /\ arg' # arg) =>
          (arg'.idx = arg.idx /\ fpga_bytes' - fpga_bytes = arg.len - arg'.len)]_vars
  /\ [][(pc = "eeprom_io" /\ arg' # arg) =>
          /\ arg'.chip = arg.chip /\ arg'.read = arg.read
          /\ arg'.addr + arg'.len = arg.addr + arg.len]_vars
  /\ [](pc = "eeprom_io" =>
          \E req \in CopyRequests :
            /\ IsEeprom(req) /\ arg.chip = EepromChip(req)
            /\ arg.read = (req.bmRequestType = VENDOR_IN)
            /\ arg.addr + arg.len = EepromAddr(req) + req.wLength)

\* chunk 1 of a download is between its two passes and the SETUP buffer
\* already holds an EEPROM request that was admitted in the meantime
C39_Witness ==
  /\ pc = "cfg_io" /\ arg.idx = 1 /\ arg.len = EP0_CHUNK * MaxChunks - 24 - EP0_CHUNK
  /\ bitstream_idx = 0
  /\ pending_setup /\ SETUPDAT = Req(VENDOR_OUT, USB_REQ_EEPROM, 1, 4000, 130)


\* --------------------------------------------------------- starving family
\* a status query, a voltage set, an alert window set, and a status query
\* of the wrong length, which no handler takes
StarveRequests ==
     {Req(VENDOR_IN, USB_REQ_STATUS, 0, 0, l) : l \in {1, 2}}
  \cup {Req(VENDOR_OUT, USB_REQ_IO_VOLT, IO_BUF_A, 0, 2)}
  \cup {Req(VENDOR_OUT, USB_REQ_ALERT_VOLT, IO_BUF_A, 0, 4)}

\* while(1) of main(), with the boot in front of it
MainLoopStarve ==
  \/ config_init \/ config_fixup \/ main_init
  \/ main_no_setup \/ main_no_alert \/ handle_pending_alert
  \/ req_status \/ req_io_volt \/ req_alert_volt \/ req_unhandled

NextStarve ==
  \/ MainLoopStarve
  \/ \E req \in StarveRequests : handle_usb_setup(req)
  \/ isr_IE0
  \/ \E p \in Ports : AlertRaised(p)

\* the main loop never stops; the host, the monitors and the bus are free to
\* do what they like
SpecStarveFair == Init /\ [][NextStarve]_vars /\ WF_vars(MainLoopStarve)

\* C40: with the main loop running, once a SETUP is admitted the dispatcher
\* is run for it, however often the alert interrupt trips and is re-armed,
\* and a tripped alert is handled and re-armed, however many commands the
\* host sends.
C40_NoStarvation ==
  /\ []<>(~pending_setup) \/ []<><<Serving /\ pc' # pc>>_vars
  /\ (~Booting /\ ~armed_alert) ~> armed_alert

\* a command is admitted and waits at the head of the loop while the alert,
\* handled once already, has tripped again
C40_Witness ==
  /\ pc = "setup" /\ pending_setup
  /\ ~armed_alert /\ ST_ALERT \in status
  /\ Alerting(IO_BUF_A) /\ IO_BUF_A \in io.en

====
